---- MODULE Spec2Model ----
(***************************************************************************)
(* A model of the concurrent core of stockspotlight: the TTL cache         *)
(* (internal/cache/cache.go), the rate limiter (finnhub_limiter) and the   *)
(* log rotator (internal/logger/rotation_system.go).                       *)
(*                                                                         *)
(* Each component has its own specification (SpecCache, SpecLimiter,       *)
(* SpecRotator); the variables of the other components stay at their       *)
(* initial values.  Time is the monotonic clock reading, in whole units.   *)
(***************************************************************************)
EXTENDS Integers, Sequences, FiniteSets, TLC

VARIABLES
    now,          \* the clock (time.Now), shared by all goroutines
    \* ---- Cache (cache.go) ----
    data,         \* Cache.data : map[string]cacheEntry
    mu,           \* Cache.mu   : sync.RWMutex, [writer, readers]
    pc,           \* per goroutine: position inside Set / Get / Delete
    key,          \* per goroutine: the key argument of the running call
    entry,        \* per goroutine: Get's local (entry, ok)
    ret,          \* per goroutine: Get's return value (value, found)
    at,           \* per goroutine: clock reading at which Get decided
    fatal,        \* the Go runtime aborted the process (concurrent map access)
    last,         \* history: per key, the last Set / Delete in lock order
    missed,       \* history: per key, a Get found it expired and no Set since
    after,        \* history: per goroutine, the Get began while missed[key]
    \* ---- Limiter (finnhub_limiter) ----
    lastRequest,  \* Limiter.lastRequest : time.Time
    interval,     \* Limiter.interval    : time.Duration
    lmu,          \* Limiter.mu          : sync.Mutex, the holder
    wpc,          \* per goroutine: position inside Wait
    elapsed,      \* per goroutine: Wait's local elapsed
    wake,         \* per goroutine: the instant its time.Sleep ends
    calls,        \* number of Wait calls made so far
    grants,       \* history: the clock readings recorded as lastRequest
    slept,        \* history: per goroutine, time.Sleep calls in this Wait
    \* ---- LogRotator (rotation_system.go) and its directory ----
    active,       \* the file at logFilePath, or NoFile
    rotated,      \* the siblings logFilePath.<timestamp>, by timestamp
    rpc,          \* per goroutine: position inside RotateLog / cleanupOldLogs
    todo,         \* per goroutine: cleanupOldLogs' files still to remove
    op,           \* per goroutine: the exported call it is running
    res,          \* per goroutine: what the call it returns from returns
    renames,      \* number of renames done so far
    writes,       \* number of log lines written so far
    fds,          \* the open file descriptions on files of the directory
    cfd,          \* per goroutine: the file its createEmptyLogFile has open
    moved,        \* history: per goroutine, what its RotateLog renamed
    cl,           \* history: per goroutine, what its cleanupOldLogs listed,
                  \* could not stat and could not remove
    \* ---- Logger (logger.go) ----
    lfile,        \* Logger.file: the open file description it refers to
    infoOut,      \* the output of Logger.infoLogger
    errOut,       \* the output of Logger.errorLogger
    lpc,          \* per goroutine: position inside the Logger's code
    stack,        \* per goroutine: the calls of the Logger it is inside
    newfd,        \* per goroutine: reopenLogFile's local file
    proc,         \* the process: running, exited (os.Exit) or aborted
    logcalls,     \* number of calls of the Logger's write operations so far
    ticks,        \* number of ticks of the scheduler's ticker so far
    cbs,          \* history: number of calls of the onRotate callback
    wrote,        \* history: the last line written and where it went
    seen,         \* history: per goroutine, the os.Stat outcome of its last
                  \* ShouldRotate made for the Logger or the scheduler
    forced,       \* history: per goroutine, how the RotateLog that its
                  \* ForceRotate ran has ended
    \* ---- the server (cmd/main.go) and the API client (finnhub.go) ----
    answer,       \* per goroutine: the status its /logs/rotate handler answers
    reqs,         \* number of HTTP requests served so far
    mpc,          \* position of main between the signal and the exit
    fetch         \* per goroutine: its call of FetchCompanyProfile/FetchNews

cacheVars == <<data, mu, pc, key, entry, ret, at, fatal, last, missed, after>>
limiterVars == <<lastRequest, interval, lmu, wpc, elapsed, wake, calls, grants, slept>>
rotatorVars == <<active, rotated, rpc, todo, op, res, renames, writes, fds, cfd, moved, cl>>

\* What the steps of one component leave alone.
histVars == <<seen, forced>>
loggerVars == <<lfile, infoOut, errOut, lpc, stack, newfd, proc, logcalls, ticks, cbs, wrote, histVars>>
appVars == <<answer, reqs, mpc, fetch>>
notCache == <<limiterVars, rotatorVars, loggerVars, appVars>>
notLimiter == <<cacheVars, rotatorVars, loggerVars, appVars>>
notRotator == <<cacheVars, limiterVars, loggerVars, appVars>>
notLogger == <<cacheVars, limiterVars, appVars>>

(***************************************************************************)
(* Bounds of the model.                                                    *)
(***************************************************************************)
MaxTime == 2
MaxTtl == 1
MaxInterval == 2
MaxCalls == 3
MaxWrites == 1
MaxOpens == 1
MaxLate == 1
MaxRenames == 1
MaxStatFaults == 1
MaxRemoveFaults == 1
MaxExtra == 3
MaxLogCalls == 1
MaxTicks == 1
MaxNesting == 2
MaxRequests == 2

Threads == {"g1", "g2"}
Keys == {"a", "b"}
Values == {"v1", "v2"}
\* time.Duration is signed: a negative ttl is a legal argument of Set.
Ttls == -1..MaxTtl
NoThread == "none"
NoKey == "-"

(***************************************************************************)
(* Cache: data structures                                                  *)
(***************************************************************************)
cacheEntry(v, ts, ttl) == [data |-> v, timestamp |-> ts, ttl |-> ttl]

\* c.data[key] = e
MapSetKeep(m, k, e) == [x \in DOMAIN m \cup {k} |-> IF x \in DOMAIN m THEN m[x] ELSE e]
MapSet(m, k, e) == [x \in DOMAIN m \cup {k} |-> IF x = k THEN e ELSE m[x]]

\* delete(c.data, key): a no-op when key is absent
MapDelete(m, k) == [x \in DOMAIN m \ {k} |-> m[x]]

\* entry, ok := c.data[key]
NotOk == [ok |-> FALSE]
MapGet(m, k) == IF k \in DOMAIN m THEN [ok |-> TRUE, e |-> m[k]] ELSE NotOk

\* time.Since(t)
Since(t) == now - t

\* time.Since(entry.timestamp) > entry.ttl
ExpiredGe(e) == Since(e.timestamp) >= e.ttl
Expired(e) == Since(e.timestamp) > e.ttl

\* Get's eviction, cache.go:47, and Delete's removal, cache.go:57
EvictNothing(m, k) == m
Evict(m, k) == MapDelete(m, k)
RemoveAll(m, k) == [x \in {} |-> NotOk]
RemoveIfExpired(m, k) == IF k \in DOMAIN m /\ Expired(m[k]) THEN MapDelete(m, k) ELSE m
Remove(m, k) == MapDelete(m, k)

\* sync.RWMutex
Unlocked == [writer |-> NoThread, readers |-> {}]
CanLockDespiteReaders(t) == mu.writer = NoThread
CanLock(t) == mu.writer = NoThread /\ mu.readers = {}
CanRLock(t) == mu.writer = NoThread
Lock(t) == [mu EXCEPT !.writer = t]
Unlock(t) == [mu EXCEPT !.writer = NoThread]
RLock(t) == [mu EXCEPT !.readers = @ \cup {t}]
RUnlock(t) == [mu EXCEPT !.readers = @ \ {t}]

NoRet == [found |-> FALSE, val |-> "nil"]
NoHist == [op |-> "none"]

InitCache ==
    /\ data = [x \in {} |-> NotOk]            \* New(): make(map[string]cacheEntry)
    /\ mu = Unlocked
    /\ pc = [t \in Threads |-> "idle"]
    /\ key = [t \in Threads |-> NoKey]
    /\ entry = [t \in Threads |-> NotOk]
    /\ ret = [t \in Threads |-> NoRet]
    /\ at = [t \in Threads |-> 0]
    /\ fatal = FALSE
    /\ last = [k \in Keys |-> NoHist]
    /\ missed = [k \in Keys |-> FALSE]
    /\ after = [t \in Threads |-> FALSE]

(***************************************************************************)
(* Cache.Set, cache.go:27-35                                               *)
(***************************************************************************)
\* c.mu.Lock(), called with key k
SetLock(t, k) ==
    /\ ~fatal /\ pc[t] = "idle" /\ CanLock(t)
    /\ UNCHANGED notCache
    /\ mu' = Lock(t)
    /\ pc' = [pc EXCEPT ![t] = "s_write"]
    /\ key' = [key EXCEPT ![t] = k]
    /\ UNCHANGED <<now, data, entry, ret, at, fatal, last, missed, after>>

\* c.data[key] = cacheEntry{data: value, timestamp: time.Now(), ttl: ttl},
\* then the deferred c.mu.Unlock().  The arguments value and ttl are drawn
\* here, where they are first used.
SetWrite(t, v, ttl) ==
    /\ ~fatal /\ pc[t] = "s_write"
    /\ UNCHANGED notCache
    /\ data' = MapSet(data, key[t], cacheEntry(v, now, ttl))
    /\ mu' = Unlock(t)
    /\ last' = [last EXCEPT ![key[t]] = [op |-> "set", e |-> cacheEntry(v, now, ttl)]]
    /\ missed' = [missed EXCEPT ![key[t]] = FALSE]
    /\ after' = [u \in Threads |-> IF key[u] = key[t] THEN FALSE ELSE after[u]]
    /\ pc' = [pc EXCEPT ![t] = "idle"]
    /\ key' = [key EXCEPT ![t] = NoKey]
    /\ UNCHANGED <<now, entry, ret, at, fatal>>

(***************************************************************************)
(* Cache.Get, cache.go:38-51.  The whole body, the delete of line 47       *)
(* included, runs under the read lock taken at line 39.                    *)
(***************************************************************************)
\* c.mu.RLock(), called with key k
GetRLock(t, k) ==
    /\ ~fatal /\ pc[t] = "idle" /\ CanRLock(t)
    /\ UNCHANGED notCache
    /\ mu' = RLock(t)
    /\ pc' = [pc EXCEPT ![t] = "g_read"]
    /\ key' = [key EXCEPT ![t] = k]
    /\ after' = [after EXCEPT ![t] = missed[k]]
    /\ UNCHANGED <<now, data, entry, ret, at, fatal, last, missed>>

\* entry, ok := c.data[key]; if !ok { return nil, false }
GetRead(t) ==
    /\ ~fatal /\ pc[t] = "g_read"
    /\ UNCHANGED notCache
    /\ IF MapGet(data, key[t]).ok
       THEN /\ pc' = [pc EXCEPT ![t] = "g_check"]
            /\ entry' = [entry EXCEPT ![t] = MapGet(data, key[t])]
            /\ UNCHANGED <<ret, at>>
       ELSE /\ pc' = [pc EXCEPT ![t] = "g_unlock"]
            /\ ret' = [ret EXCEPT ![t] = NoRet]
            /\ at' = [at EXCEPT ![t] = now]
            /\ UNCHANGED entry
    /\ UNCHANGED <<now, data, mu, key, fatal, last, missed, after>>

\* if time.Since(entry.timestamp) > entry.ttl { ... } return entry.data, true
GetCheck(t) ==
    /\ ~fatal /\ pc[t] = "g_check"
    /\ UNCHANGED notCache
    /\ at' = [at EXCEPT ![t] = now]
    /\ entry' = [entry EXCEPT ![t] = NotOk]
    /\ IF Expired(entry[t].e)
       THEN /\ pc' = [pc EXCEPT ![t] = "g_delete"]
            /\ UNCHANGED ret
       ELSE /\ pc' = [pc EXCEPT ![t] = "g_unlock"]
            /\ ret' = [ret EXCEPT ![t] = [found |-> TRUE, val |-> entry[t].e.data]]
    /\ UNCHANGED <<now, data, mu, key, fatal, last, missed, after>>

\* delete(c.data, key); return nil, false
GetDelete(t) ==
    /\ ~fatal /\ pc[t] = "g_delete"
    /\ UNCHANGED notCache
    /\ data' = Evict(data, key[t])
    /\ ret' = [ret EXCEPT ![t] = NoRet]
    /\ missed' = [missed EXCEPT ![key[t]] = TRUE]
    /\ pc' = [pc EXCEPT ![t] = "g_unlock"]
    /\ UNCHANGED <<now, mu, key, entry, at, fatal, last, after>>

\* The deferred c.mu.RUnlock(); the call returns ret[t].
GetUnlock(t) ==
    /\ ~fatal /\ pc[t] = "g_unlock"
    /\ UNCHANGED notCache
    /\ mu' = RUnlock(t)
    /\ pc' = [pc EXCEPT ![t] = "idle"]
    /\ key' = [key EXCEPT ![t] = NoKey]
    /\ ret' = [ret EXCEPT ![t] = NoRet]
    /\ at' = [at EXCEPT ![t] = 0]
    /\ after' = [after EXCEPT ![t] = FALSE]
    /\ UNCHANGED <<now, data, entry, fatal, last, missed>>

\* A goroutine at g_delete is about to write the map holding only the read
\* lock; a goroutine at g_read or g_delete is about to access it too.
MapAccessPending(t) == pc[t] \in {"g_read", "g_delete", "s_write", "d_delete"}
MapWritePending(t) == pc[t] \in {"g_delete", "s_write", "d_delete"}
MapRace == \E t, u \in Threads : t # u /\ MapWritePending(t) /\ MapAccessPending(u)

\* The unsynchronised map write of line 47 racing another access: besides
\* running to completion (the steps above) the Go runtime may detect the
\* concurrent map access and abort the process ("fatal error: concurrent
\* map writes" / "concurrent map read and map write").
MapFault ==
    /\ ~fatal /\ MapRace
    /\ UNCHANGED notCache
    /\ fatal' = TRUE
    /\ UNCHANGED <<now, data, mu, pc, key, entry, ret, at, last, missed, after>>

(***************************************************************************)
(* Cache.Delete, cache.go:54-58                                            *)
(***************************************************************************)
\* c.mu.Lock(), called with key k
DeleteLock(t, k) ==
    /\ ~fatal /\ pc[t] = "idle" /\ CanLock(t)
    /\ UNCHANGED notCache
    /\ mu' = Lock(t)
    /\ pc' = [pc EXCEPT ![t] = "d_delete"]
    /\ key' = [key EXCEPT ![t] = k]
    /\ UNCHANGED <<now, data, entry, ret, at, fatal, last, missed, after>>

\* delete(c.data, key), then the deferred c.mu.Unlock()
DeleteRemove(t) ==
    /\ ~fatal /\ pc[t] = "d_delete"
    /\ UNCHANGED notCache
    /\ data' = Remove(data, key[t])
    /\ mu' = Unlock(t)
    /\ last' = [last EXCEPT ![key[t]] =
                    [op |-> "del",
                     was |-> IF key[t] \notin DOMAIN data THEN "absent"
                             ELSE IF Expired(data[key[t]]) THEN "expired" ELSE "live"]]
    /\ pc' = [pc EXCEPT ![t] = "idle"]
    /\ key' = [key EXCEPT ![t] = NoKey]
    /\ UNCHANGED <<now, entry, ret, at, fatal, missed, after>>

\* The clock advances.
TickCache ==
    /\ ~fatal /\ now < MaxTime
    /\ UNCHANGED notCache
    /\ now' = now + 1
    /\ UNCHANGED cacheVars

NextCache ==
    \/ \E t \in Threads, k \in Keys : SetLock(t, k)
    \/ \E t \in Threads, v \in Values, ttl \in Ttls : SetWrite(t, v, ttl)
    \/ \E t \in Threads, k \in Keys : GetRLock(t, k)
    \/ \E t \in Threads : GetRead(t)
    \/ \E t \in Threads : GetCheck(t)
    \/ \E t \in Threads : GetDelete(t)
    \/ \E t \in Threads : GetUnlock(t)
    \/ \E t \in Threads, k \in Keys : DeleteLock(t, k)
    \/ \E t \in Threads : DeleteRemove(t)
    \/ MapFault
    \/ TickCache

vars == <<now, cacheVars, limiterVars, rotatorVars, loggerVars, appVars>>

(***************************************************************************)
(* Limiter, finnhub_limiter (src/unnamed/part_000)                         *)
(***************************************************************************)
\* The zero time.Time, the value of lastRequest before the first Wait: an
\* instant further in the past than any Duration can express.
ZeroTime == -2147483647
\* time.Since of the zero Time saturates at the largest Duration.
MaxDuration == 2147483647
Intervals == 0..MaxInterval

\* elapsed := time.Since(l.lastRequest)
SinceLast == IF lastRequest = ZeroTime THEN MaxDuration ELSE now - lastRequest

\* if elapsed < l.interval { time.Sleep(l.interval - elapsed) }
NoSleep(e) == 0
SleepFor(e) == IF e < interval THEN interval - e ELSE 0

\* NewLimiter(interval)
InitLimiter ==
    /\ lastRequest = ZeroTime
    /\ interval \in Intervals
    /\ lmu = NoThread
    /\ wpc = [t \in Threads |-> "idle"]
    /\ elapsed = [t \in Threads |-> 0]
    /\ wake = [t \in Threads |-> 0]
    /\ calls = 0
    /\ grants = <<>>
    /\ slept = [t \in Threads |-> 0]

InitIdleLimiter == InitLimiter /\ interval = 0

\* A goroutine calls Wait and blocks on l.mu.Lock().
WaitCall(t) ==
    /\ wpc[t] = "idle" /\ calls < MaxCalls
    /\ UNCHANGED notLimiter
    /\ calls' = calls + 1
    /\ wpc' = [wpc EXCEPT ![t] = "w_lock"]
    /\ slept' = [slept EXCEPT ![t] = 0]
    /\ UNCHANGED <<now, lastRequest, interval, lmu, elapsed, wake, grants>>

\* l.mu.Lock() returns
WaitLock(t) ==
    /\ wpc[t] = "w_lock" /\ lmu = NoThread
    /\ UNCHANGED notLimiter
    /\ lmu' = t
    /\ wpc' = [wpc EXCEPT ![t] = "w_measure"]
    /\ UNCHANGED <<now, lastRequest, interval, elapsed, wake, calls, grants, slept>>

\* elapsed := time.Since(l.lastRequest); if elapsed < l.interval, time.Sleep
\* is entered for l.interval - elapsed
WaitMeasure(t) ==
    /\ wpc[t] = "w_measure"
    /\ UNCHANGED notLimiter
    /\ elapsed' = [elapsed EXCEPT ![t] = SinceLast]
    /\ IF SleepFor(SinceLast) > 0
       THEN /\ wpc' = [wpc EXCEPT ![t] = "w_sleep"]
            /\ wake' = [wake EXCEPT ![t] = now + SleepFor(SinceLast)]
            /\ slept' = [slept EXCEPT ![t] = @ + 1]
       ELSE /\ wpc' = [wpc EXCEPT ![t] = "w_record"]
            /\ UNCHANGED <<wake, slept>>
    /\ UNCHANGED <<now, lastRequest, interval, lmu, calls, grants>>

\* time.Sleep returns, no earlier than after the requested duration
WaitWake(t) ==
    /\ wpc[t] = "w_sleep" /\ now >= wake[t]
    /\ UNCHANGED notLimiter
    /\ wpc' = [wpc EXCEPT ![t] = "w_record"]
    /\ UNCHANGED <<now, lastRequest, interval, lmu, elapsed, wake, calls, grants, slept>>

\* l.lastRequest = time.Now(), then the deferred l.mu.Unlock()
WaitRecordNoUnlock(t) ==
    /\ wpc[t] = "w_record"
    /\ UNCHANGED notLimiter
    /\ lastRequest' = now
    /\ grants' = Append(grants, now)
    /\ wpc' = [wpc EXCEPT ![t] = "idle"]
    /\ elapsed' = [elapsed EXCEPT ![t] = 0]
    /\ wake' = [wake EXCEPT ![t] = 0]
    /\ UNCHANGED <<now, interval, lmu, calls, slept>>
WaitRecord(t) ==
    /\ wpc[t] = "w_record"
    /\ UNCHANGED notLimiter
    /\ lastRequest' = now
    /\ grants' = Append(grants, now)
    /\ lmu' = NoThread
    /\ wpc' = [wpc EXCEPT ![t] = "idle"]
    /\ elapsed' = [elapsed EXCEPT ![t] = 0]
    /\ wake' = [wake EXCEPT ![t] = 0]
    /\ UNCHANGED <<now, interval, calls, slept>>

Sleeping(t) == wpc[t] = "w_sleep" /\ now < wake[t]

\* The clock advances; it is stopped at MaxTime once nobody sleeps.
TickLimiter ==
    /\ now < MaxTime \/ \E t \in Threads : Sleeping(t)
    /\ UNCHANGED notLimiter
    /\ now' = now + 1
    /\ UNCHANGED limiterVars

NextLimiter ==
    \/ \E t \in Threads : WaitCall(t)
    \/ \E t \in Threads : WaitLock(t)
    \/ \E t \in Threads : WaitMeasure(t)
    \/ \E t \in Threads : WaitWake(t)
    \/ \E t \in Threads : WaitRecord(t)
    \/ TickLimiter

(***************************************************************************)
(* LogRotator, internal/logger/rotation_system.go.  Time is in seconds,    *)
(* the resolution of the rotated file's name.                              *)
(***************************************************************************)
MaxLogFileSize == 10 * 1024 * 1024
MaxLogAge == 5 * 24 * 3600
MaxLogFiles == 10

\* The ticker of the rotation scheduler: its first tick comes one interval
\* after New started it, 10*time.Minute in seconds
SchedulerInterval == 600

\* NewLogRotator(logFilePath)
maxSize == MaxLogFileSize
maxAge == MaxLogAge
maxFiles == MaxLogFiles

\* Bytes of "INFO: 2006-01-02 15:04:05 Log file created/rotated\n"
BannerLen == 51
\* Log lines: what fills a banner-only file up to maxSize - 1 and up to
\* maxSize bytes.
Chunks == {MaxLogFileSize - BannerLen - 1, MaxLogFileSize - BannerLen}
\* The clock moves by a second or by maxAge.
Jumps == {1, MaxLogAge}

NoFile == [exists |-> FALSE]
File(c, t) == [exists |-> TRUE, content |-> c, mtime |-> t]

\* A file's content: its lines, each with its length in bytes.
Banner == [line |-> "banner", bytes |-> BannerLen]
Line(n) == [line |-> "msg", bytes |-> n]

RECURSIVE Bytes(_)
Bytes(c) == IF c = <<>> THEN 0 ELSE Head(c).bytes + Bytes(Tail(c))

\* os.Stat(lr.logFilePath): the file's FileInfo, "does not exist", or
\* another error
Stat(f, fault) ==
    IF fault THEN [kind |-> "error"]
    ELSE IF ~f.exists THEN [kind |-> "notexist"]
    ELSE [kind |-> "ok", size |-> Bytes(f.content), mtime |-> f.mtime]

\* ShouldRotate, rotation_system.go:37-57, on the result of its os.Stat
ShouldRotateGt(st) ==
    IF st.kind = "notexist" THEN [rotate |-> FALSE, err |-> FALSE]
    ELSE IF st.kind = "error" THEN [rotate |-> FALSE, err |-> TRUE]
    ELSE IF st.size > maxSize THEN [rotate |-> TRUE, err |-> FALSE]
    ELSE IF now - st.mtime > maxAge THEN [rotate |-> TRUE, err |-> FALSE]
    ELSE [rotate |-> FALSE, err |-> FALSE]
ShouldRotate(st) ==
    IF st.kind = "notexist" THEN [rotate |-> FALSE, err |-> FALSE]
    ELSE IF st.kind = "error" THEN [rotate |-> FALSE, err |-> TRUE]
    ELSE IF st.size >= maxSize THEN [rotate |-> TRUE, err |-> FALSE]
    ELSE IF now - st.mtime >= maxAge THEN [rotate |-> TRUE, err |-> FALSE]
    ELSE [rotate |-> FALSE, err |-> FALSE]

\* createEmptyLogFile, rotation_system.go:97-109: os.Create truncates or
\* creates the file; WriteString then writes the banner line at offset 0
\* of the file it has open (no O_APPEND), over the first BannerLen bytes of
\* whatever has been appended to that file since the os.Create.
Truncated(t) == File(<<>>, t)
BannerOnly(t) == File(<<Banner>>, t)
\* What is left of the content c behind its first n bytes
RECURSIVE Behind(_, _)
Behind(c, n) ==
    IF c = <<>> \/ n = 0 THEN c
    ELSE IF Head(c).bytes <= n THEN Behind(Tail(c), n - Head(c).bytes)
    ELSE <<[line |-> "tail", bytes |-> Head(c).bytes - n]>> \o Tail(c)
WriteString(c) == <<Banner>> \o Behind(c, BannerLen)

\* A path of the log directory is logFilePath followed by its suffixes:
\* logFilePath itself has none.
ActivePath == <<>>
\* fmt.Sprintf("%s.%s", lr.logFilePath, timestamp), the timestamp being
\* time.Now() to the second, which is the unit of the clock
RotatedName(t) == <<t>>

\* os.Rename(old, new) replaces whatever is at new
Renamed(dir, name, f) == [x \in DOMAIN dir \cup {name} |-> IF x = name THEN f ELSE dir[x]]
Removed(dir, name) == [x \in DOMAIN dir \ {name} |-> dir[x]]

\* An open file description stays on its file when the file is renamed, and
\* is on no path once the file is replaced or removed.
Fd(path) == [open |-> TRUE, linked |-> TRUE, path |-> path]
\* A closed file: what it was open on no longer matters
Closed == [open |-> FALSE, linked |-> FALSE, path |-> ActivePath]
Unlink(d) == [d EXCEPT !.linked = FALSE]
RenamedFds(f, old, new) ==
    [i \in DOMAIN f |->
        IF ~f[i].linked THEN f[i]
        ELSE IF f[i].path = new THEN Unlink(f[i])
        ELSE IF f[i].path = old THEN [f[i] EXCEPT !.path = new]
        ELSE f[i]]
RemovedFds(f, name) ==
    [i \in DOMAIN f |-> IF f[i].linked /\ f[i].path = name THEN Unlink(f[i]) ELSE f[i]]

\* cleanupOldLogs, rotation_system.go:144-161: the files it decides to
\* remove.  rotatedFiles is sorted by ModTime, newest first, by a sort that
\* is not stable: keep is the set at indexes below maxFiles in one of the
\* orders the sort can produce.
KeepOldest(dir) ==
    IF Cardinality(DOMAIN dir) <= maxFiles THEN {DOMAIN dir}
    ELSE {{x \in DOMAIN dir :
             Cardinality({y \in DOMAIN dir : dir[y].mtime <= dir[x].mtime}) <= maxFiles}}
\* Sure: those with at most maxFiles files as new as they are; Edge: those
\* tied at the last indexes below maxFiles.
KeepSets(dir) ==
    IF Cardinality(DOMAIN dir) <= maxFiles THEN {DOMAIN dir}
    ELSE LET Sure == {x \in DOMAIN dir :
                        Cardinality({y \in DOMAIN dir : dir[y].mtime >= dir[x].mtime})
                            <= maxFiles}
             Edge == {x \in DOMAIN dir \ Sure :
                        Cardinality({y \in DOMAIN dir : dir[y].mtime > dir[x].mtime})
                            < maxFiles}
         IN  {Sure \cup T : T \in {U \in SUBSET Edge :
                                     Cardinality(U) = maxFiles - Cardinality(Sure)}}
\* file.ModTime.Before(cutoffTime), cutoffTime = time.Now().Add(-lr.maxAge)
TooOldGe(f) == f.mtime <= now - maxAge
TooOld(f) == f.mtime < now - maxAge
ToDelete(dir, keep) == {x \in DOMAIN dir : TooOld(dir[x]) \/ x \notin keep}

\* The loop of rotation_system.go:150-170 goes through rotatedFiles in its
\* sorted order, newest first.  sort.Slice is not stable: files of equal
\* ModTime come in any order, those kept (index below maxFiles) before the
\* others.  Orders is the set of the orders the files S may be removed in.
First(S, dir, keep) ==
    {y \in S : \A z \in S :
        /\ dir[y].mtime >= dir[z].mtime
        /\ dir[y].mtime = dir[z].mtime => (y \in keep \/ z \notin keep)}
RECURSIVE Orders(_, _, _)
Orders(S, dir, keep) ==
    IF S = {} THEN {<<>>}
    ELSE UNION {{<<x>> \o q : q \in Orders(S \ {x}, dir, keep)} : x \in First(S, dir, keep)}
Names(q) == {q[i] : i \in DOMAIN q}

\* cleanupOldLogs, rotation_system.go:116-130: the paths matching
\* "<logFilePath>.*", the active path skipped
SiblingsAndActive(act, dir) == DOMAIN dir \cup (IF act.exists THEN {ActivePath} ELSE {})
Siblings(act, dir) == DOMAIN dir
\* rotation_system.go:132-142: rotatedFiles, the siblings whose os.Stat
\* succeeds (those in skipped fail it)
RotatedFiles(act, dir, skipped) ==
    [x \in Siblings(act, dir) \ skipped |-> IF x = ActivePath THEN act ELSE dir[x]]
\* The os.Stat failures one listing may meet
StatFaults(act, dir) ==
    {S \in SUBSET Siblings(act, dir) : Cardinality(S) <= MaxStatFaults}

\* rotation_system.go:88-93: RotateLog prints cleanupOldLogs' error and
\* returns nil; Logger.CleanupOldLogs (logger.go:164) returns it
CleanupErrPropagated(o, globErr) == globErr
CleanupErr(o, globErr) == o = "cleanupOldLogs" /\ globErr

NoMove == [name |-> ActivePath, file |-> NoFile]
NoList == [listed |-> FALSE]
Listed(dir, skipped) ==
    [listed |-> TRUE, dir |-> dir, at |-> now, skipped |-> skipped, failed |-> {}]

NoRes == [op |-> "none"]
\* The goroutines that call the rotator.
RotatorThreads == {"g1"}

\* No call of the rotator is running.
InitCalls ==
    /\ rpc = [t \in Threads |-> "idle"]
    /\ todo = [t \in Threads |-> <<>>]
    /\ op = [t \in Threads |-> "none"]
    /\ res = [t \in Threads |-> NoRes]
    /\ renames = 0
    /\ writes = 0
    /\ moved = [t \in Threads |-> NoMove]
    /\ cl = [t \in Threads |-> NoList]
    /\ cfd = [t \in Threads |-> Closed]

\* NewLogRotator(logFilePath) on an empty directory
InitRotator ==
    /\ active = NoFile
    /\ rotated = [x \in {} |-> NoFile]
    /\ fds = <<>>
    /\ InitCalls

\* The directories cleanupOldLogs is run on: n siblings rotated in earlier
\* runs, the o oldest last written maxAge ago or more (with edge, the
\* newest of these exactly maxAge ago), the others within the last
\* seconds, at distinct instants or (tie) two by two at the same.
SiblingCounts == (maxFiles - 1) .. (maxFiles + MaxExtra)
ExpiredCounts(n) == {0, 1, n - maxFiles + 1, n}
OldMtime(i, n, o, tie, edge) ==
    IF i > n - o THEN 0 - maxAge - (i - (n - o)) + (IF edge THEN 1 ELSE 0)
    ELSE IF tie THEN 0 - ((i + 1) \div 2)
    ELSE 0 - i
Directory(n, o, tie, edge) ==
    [x \in {<<0 - i>> : i \in 1 .. n} |->
        File(<<Banner>>, OldMtime(0 - x[1], n, o, tie, edge))]
Directories ==
    {Directory(n, o, tie, edge) :
        n \in SiblingCounts, o \in 0 .. (maxFiles + MaxExtra), tie \in BOOLEAN, edge \in BOOLEAN}

\* NewLogRotator(logFilePath) on a directory with rotated siblings
InitRotatorOn(dir) ==
    /\ active = File(<<Banner>>, 0)
    /\ rotated = dir
    /\ fds = <<>>
    /\ InitCalls

\* lr.ShouldRotate(): one os.Stat and the decision on its result
CallShouldRotate(t, fault) ==
    /\ rpc[t] = "idle"
    /\ UNCHANGED notRotator
    /\ rpc' = [rpc EXCEPT ![t] = "ret"]
    /\ res' = [res EXCEPT ![t] =
                  [op |-> "ShouldRotate", stat |-> Stat(active, fault).kind,
                   out |-> ShouldRotate(Stat(active, fault))]]
    /\ UNCHANGED <<now, active, rotated, todo, op, renames, writes, fds, cfd, moved, cl>>

\* lr.RotateLog() is called
CallRotateLog(t) ==
    /\ rpc[t] = "idle"
    /\ UNCHANGED notRotator
    /\ rpc' = [rpc EXCEPT ![t] = "r_mkdir"]
    /\ op' = [op EXCEPT ![t] = "RotateLog"]
    /\ UNCHANGED <<now, active, rotated, todo, res, renames, writes, fds, cfd, moved, cl>>

\* A call returns err (TRUE: a non-nil error) from the statement at.
Return(t, err, stmt) ==
    /\ rpc' = [rpc EXCEPT ![t] = "ret"]
    /\ res' = [res EXCEPT ![t] = [op |-> op[t], err |-> err, at |-> stmt]]
    /\ op' = [op EXCEPT ![t] = "none"]

\* The caller has the result.
Returned(t) ==
    /\ rpc[t] = "ret"
    /\ UNCHANGED notRotator
    /\ rpc' = [rpc EXCEPT ![t] = "idle"]
    /\ res' = [res EXCEPT ![t] = NoRes]
    /\ moved' = [moved EXCEPT ![t] = NoMove]
    /\ cl' = [cl EXCEPT ![t] = NoList]
    /\ UNCHANGED <<now, active, rotated, todo, op, renames, writes, fds, cfd>>

\* os.MkdirAll(logDir, 0755), rotation_system.go:62-65
RotateMkdir(t, ok) ==
    /\ rpc[t] = "r_mkdir"
    /\ UNCHANGED notRotator
    /\ IF ok
       THEN /\ rpc' = [rpc EXCEPT ![t] = "r_stat"]
            /\ UNCHANGED <<res, op>>
       ELSE Return(t, TRUE, "mkdir")
    /\ UNCHANGED <<now, active, rotated, todo, renames, writes, fds, cfd, moved, cl>>

\* if _, err := os.Stat(lr.logFilePath); os.IsNotExist(err),
\* rotation_system.go:68: any other outcome goes on to the rename
RotateStat(t, fault) ==
    /\ rpc[t] = "r_stat"
    /\ UNCHANGED notRotator
    /\ rpc' = [rpc EXCEPT ![t] = IF Stat(active, fault).kind = "notexist"
                                  THEN "r_create0" ELSE "r_rename"]
    /\ UNCHANGED <<now, active, rotated, todo, op, res, renames, writes, fds, cfd, moved, cl>>

\* os.Create(lr.logFilePath), rotation_system.go:98-102: the file is made,
\* or emptied when it is there, and open in t's createEmptyLogFile
CreateStep(t, next) ==
    /\ active' = Truncated(now)
    /\ cfd' = [cfd EXCEPT ![t] = Fd(ActivePath)]
    /\ rpc' = [rpc EXCEPT ![t] = next]
    /\ UNCHANGED <<rotated, res, op>>

\* file.WriteString(initialEntry) and the deferred file.Close(),
\* rotation_system.go:102-108: the banner goes to the start of the file
\* that t's createEmptyLogFile has open, wherever that file is by now
WriteStep(t, ok) ==
    /\ active' = IF ok /\ cfd[t].linked /\ cfd[t].path = ActivePath
                 THEN File(WriteString(active.content), now) ELSE active
    /\ rotated' = IF ok /\ cfd[t].linked /\ cfd[t].path # ActivePath
                  THEN [rotated EXCEPT ![cfd[t].path] = File(WriteString(@.content), now)]
                  ELSE rotated
    /\ cfd' = [cfd EXCEPT ![t] = Closed]

\* return lr.createEmptyLogFile(), rotation_system.go:70: its os.Create
RotateCreateAbsent(t, ok) ==
    /\ rpc[t] = "r_create0"
    /\ UNCHANGED notRotator
    /\ IF ok THEN CreateStep(t, "r_write0")
       ELSE /\ Return(t, TRUE, "absent")
            /\ UNCHANGED <<active, rotated, cfd>>
    /\ UNCHANGED <<now, todo, renames, writes, fds, moved, cl>>

\* return lr.createEmptyLogFile(), rotation_system.go:70: its WriteString,
\* whose error is the result
RotateWriteAbsent(t, ok) ==
    /\ rpc[t] = "r_write0"
    /\ UNCHANGED notRotator
    /\ WriteStep(t, ok)
    /\ Return(t, ~ok, "absent")
    /\ UNCHANGED <<now, todo, renames, writes, fds, moved, cl>>

\* os.Rename(lr.logFilePath, rotatedName), rotation_system.go:74-80; it
\* fails when the active file is not there, and may fail otherwise
RotateRename(t, ok) ==
    /\ rpc[t] = "r_rename"
    /\ UNCHANGED notRotator
    /\ IF ok /\ active.exists
       THEN /\ renames < MaxRenames
            /\ rotated' = Renamed(rotated, RotatedName(now), active)
            /\ active' = NoFile
            /\ fds' = RenamedFds(fds, ActivePath, RotatedName(now))
            /\ cfd' = RenamedFds(cfd, ActivePath, RotatedName(now))
            /\ moved' = [moved EXCEPT ![t] = [name |-> RotatedName(now), file |-> active]]
            /\ renames' = renames + 1
            /\ rpc' = [rpc EXCEPT ![t] = "r_create"]
            /\ UNCHANGED <<res, op>>
       ELSE /\ Return(t, TRUE, "rename")
            /\ UNCHANGED <<active, rotated, renames, fds, cfd, moved>>
    /\ UNCHANGED <<now, todo, writes, cl>>

\* lr.createEmptyLogFile() after the rename, rotation_system.go:83-85: its
\* os.Create
RotateCreate(t, ok) ==
    /\ rpc[t] = "r_create"
    /\ UNCHANGED notRotator
    /\ IF ok THEN CreateStep(t, "r_write")
       ELSE /\ Return(t, TRUE, "create")
            /\ UNCHANGED <<active, rotated, cfd>>
    /\ UNCHANGED <<now, todo, renames, writes, fds, moved, cl>>

\* lr.createEmptyLogFile() after the rename, rotation_system.go:83-85: its
\* WriteString; without error RotateLog goes on to cleanupOldLogs
RotateWrite(t, ok) ==
    /\ rpc[t] = "r_write"
    /\ UNCHANGED notRotator
    /\ WriteStep(t, ok)
    /\ IF ok
       THEN /\ rpc' = [rpc EXCEPT ![t] = "c_list"]
            /\ UNCHANGED <<res, op>>
       ELSE Return(t, TRUE, "create")
    /\ UNCHANGED <<now, todo, renames, writes, fds, moved, cl>>

\* lr.cleanupOldLogs() is entered on its own, rotation_system.go:112, by a
\* caller that holds the rotator alone; the call that Logger.CleanupOldLogs
\* makes after its l.Info is LogCleanup
CallCleanup(t) ==
    /\ rpc[t] = "idle"
    /\ UNCHANGED notRotator
    /\ rpc' = [rpc EXCEPT ![t] = "c_list"]
    /\ op' = [op EXCEPT ![t] = "cleanupOldLogs"]
    /\ UNCHANGED <<now, active, rotated, todo, res, renames, writes, fds, cfd, moved, cl>>

\* cleanupOldLogs, rotation_system.go:113-161: glob (which may fail: the
\* call returns), stat, sort and the decision which files to remove
CleanupList(t, globErr, skipped) ==
    /\ rpc[t] = "c_list"
    /\ UNCHANGED notRotator
    /\ IF globErr
       THEN /\ Return(t, CleanupErr(op[t], TRUE), "glob")
            /\ UNCHANGED <<todo, cl>>
       ELSE /\ \E keep \in KeepSets(RotatedFiles(active, rotated, skipped)) :
                  \E q \in Orders(ToDelete(RotatedFiles(active, rotated, skipped), keep),
                                  RotatedFiles(active, rotated, skipped), keep) :
                      todo' = [todo EXCEPT ![t] = q]
            /\ cl' = [cl EXCEPT ![t] = Listed(rotated, skipped)]
            /\ rpc' = [rpc EXCEPT ![t] = "c_remove"]
            /\ UNCHANGED <<op, res>>
    /\ UNCHANGED <<now, active, rotated, renames, writes, fds, cfd, moved>>

\* os.Remove(file.Path), rotation_system.go:163-169, of the next file to
\* delete: a failure is printed and the loop goes on
CleanupRemove(t, ok) ==
    /\ rpc[t] = "c_remove" /\ todo[t] # <<>>
    /\ ok \/ Cardinality(cl[t].failed) < MaxRemoveFaults
    /\ UNCHANGED notRotator
    /\ rotated' = IF ok THEN Removed(rotated, Head(todo[t])) ELSE rotated
    /\ active' = IF ok /\ Head(todo[t]) = ActivePath THEN NoFile ELSE active
    /\ fds' = IF ok THEN RemovedFds(fds, Head(todo[t])) ELSE fds
    /\ cfd' = IF ok THEN RemovedFds(cfd, Head(todo[t])) ELSE cfd
    /\ cl' = IF ok THEN cl ELSE [cl EXCEPT ![t].failed = @ \cup {Head(todo[t])}]
    /\ todo' = [todo EXCEPT ![t] = Tail(@)]
    /\ UNCHANGED <<now, rpc, op, res, renames, writes, moved>>

\* return nil, rotation_system.go:172, and RotateLog's return nil, :93
CleanupReturn(t) ==
    /\ rpc[t] = "c_remove" /\ todo[t] = <<>>
    /\ UNCHANGED notRotator
    /\ Return(t, CleanupErr(op[t], FALSE), "cleanup")
    /\ UNCHANGED <<now, active, rotated, todo, renames, writes, fds, cfd, moved, cl>>

\* The Logger's file handle: os.OpenFile(logPath, O_CREATE|O_WRONLY|O_APPEND)
\* creates the active file when it is not there and opens the file that is
\* at the active path (logger.go:30, :123)
OpenActive ==
    /\ Len(fds) < MaxOpens
    /\ UNCHANGED notRotator
    /\ active' = IF active.exists THEN active ELSE File(<<>>, now)
    /\ fds' = Append(fds, Fd(ActivePath))
    /\ UNCHANGED <<now, rotated, rpc, todo, op, res, renames, writes, cfd, moved, cl>>

\* A log line of n bytes is written through the open handle i: O_APPEND
\* puts it at the end of the file the handle is on, which is at the active
\* path, or at the name a rotation has given it since, or removed
WriteActive(i, n) ==
    /\ i \in DOMAIN fds /\ fds[i].open /\ writes < MaxWrites
    /\ UNCHANGED notRotator
    /\ active' = IF fds[i].linked /\ fds[i].path = ActivePath
                 THEN File(Append(active.content, Line(n)), now) ELSE active
    /\ rotated' = IF fds[i].linked /\ fds[i].path # ActivePath
                  THEN [rotated EXCEPT ![fds[i].path] = File(Append(@.content, Line(n)), now)]
                  ELSE rotated
    /\ writes' = writes + 1
    /\ UNCHANGED <<now, rpc, todo, op, res, renames, fds, cfd, moved, cl>>

\* The clock advances, by seconds up to MaxLate seconds past 0 and past
\* maxAge, or by maxAge
TickRotator(d) ==
    /\ now + d <= MaxLogAge + MaxLate
    /\ d = 1 => now % MaxLogAge < MaxLate
    /\ UNCHANGED notRotator
    /\ now' = now + d
    /\ UNCHANGED rotatorVars

NextRotator ==
    \/ \E t \in RotatorThreads, fault \in BOOLEAN : CallShouldRotate(t, fault)
    \/ \E t \in RotatorThreads : CallRotateLog(t)
    \/ \E t \in RotatorThreads : Returned(t)
    \/ \E t \in RotatorThreads, ok \in BOOLEAN : RotateMkdir(t, ok)
    \/ \E t \in RotatorThreads, fault \in BOOLEAN : RotateStat(t, fault)
    \/ \E t \in RotatorThreads, ok \in BOOLEAN : RotateCreateAbsent(t, ok)
    \/ \E t \in RotatorThreads, ok \in BOOLEAN : RotateWriteAbsent(t, ok)
    \/ \E t \in RotatorThreads, ok \in BOOLEAN : RotateRename(t, ok)
    \/ \E t \in RotatorThreads, ok \in BOOLEAN : RotateCreate(t, ok)
    \/ \E t \in RotatorThreads, ok \in BOOLEAN : RotateWrite(t, ok)
    \/ \E t \in RotatorThreads : CallCleanup(t)
    \/ \E t \in RotatorThreads : \E globErr \in BOOLEAN, skipped \in StatFaults(active, rotated) :
          CleanupList(t, globErr, skipped)
    \/ \E t \in RotatorThreads, ok \in BOOLEAN : CleanupRemove(t, ok)
    \/ \E t \in RotatorThreads : CleanupReturn(t)
    \/ OpenActive
    \/ \E i \in 1..MaxOpens, n \in Chunks : WriteActive(i, n)
    \/ \E d \in Jumps : TickRotator(d)

(***************************************************************************)
(* Logger, internal/logger/logger.go                                       *)
(***************************************************************************)
\* The goroutine that calls the Logger and the goroutine started by
\* StartRotationScheduler (rotation_system.go:185).
Writer == "g1"
Scheduler == "g2"
\* The goroutine that main starts for the server, main.go:432
Server == "g2"

\* An output is os.Stdout alone, or io.MultiWriter(file, os.Stdout) for the
\* open file description numbered i > 0.
Stdout == 0

\* The lines the Logger writes, with their length in bytes:
\* prefix, date and time, file:line, message, newline.
UserLen == 81
CompletedLen == 63
ReopenFailedLen == 91
StatsLen == 112
SettingsLen == 103
CleanupLen == 69

LogKinds == {"Info", "Error", "Infof", "Errorf", "Fatal", "Fatalf"}
\* Info and Infof print on infoLogger, the others on errorLogger.
StreamOf(kind) == IF kind \in {"Info", "Infof"} THEN "info" ELSE "err"
\* logger.go:61-82 call checkAndRotate first, Fatal and Fatalf (:85-92) do not
Checks(kind) == kind \in {"Info", "Error", "Infof", "Errorf"}
\* log.Logger.Fatal: Print followed by os.Exit(1)
Exits(kind) == kind \in {"Fatal", "Fatalf"}

\* What a goroutine's stack holds: a write operation whose line is still
\* to be printed, or a function that goes on after the call it made.
Pending(kind, msg, bytes) ==
    [k |-> "write", stream |-> StreamOf(kind), exits |-> Exits(kind),
     msg |-> msg, bytes |-> bytes, checked |-> FALSE]
Cont(label) == [k |-> label]

\* The innermost call has returned: what runs next.  New goes on with
\* logRotationInfo and returns (logger.go:55-57); rotateNow goes on with
\* l.Info("Log rotation completed") and the two Infof of logRotationInfo
\* (logger.go:117-118, :143-146); ForceRotate goes on with its Info and then
\* with rotateNow (logger.go:155-157) and returns to the /logs/rotate
\* handler (main.go:116); main goes on with server.Shutdown (main.go:449),
\* returns into its deferred function (main.go:47-48), whose Close goes on
\* with its Info and l.file.Close() (logger.go:169-171); rotateNow (the
\* frame rn_ret, on the stack from its first statement to its return),
\* reopenLogFile and the onRotate callback return.
RECURSIVE Resume(_)
Resume(s) ==
    IF s = <<>> THEN [pc |-> "idle", stack |-> <<>>]
    ELSE IF Head(s).k = "write" THEN [pc |-> "write", stack |-> s]
    ELSE IF Head(s).k = "rn_info"
        THEN [pc |-> "check",
              stack |-> <<Pending("Info", "completed", CompletedLen), Cont("rn_stats")>>
                            \o Tail(s)]
    ELSE IF Head(s).k = "rn_stats"
        THEN [pc |-> "check",
              stack |-> <<Pending("Infof", "stats", StatsLen), Cont("rn_settings")>>
                            \o Tail(s)]
    ELSE IF Head(s).k = "rn_settings"
        THEN [pc |-> "check",
              stack |-> <<Pending("Infof", "settings", SettingsLen)>> \o Tail(s)]
    ELSE IF Head(s).k = "h_force"
        THEN [pc |-> "check",
              stack |-> <<Pending("Info", "user", UserLen), Cont("fr_rotate")>> \o Tail(s)]
    ELSE IF Head(s).k = "fr_rotate"
        THEN [pc |-> "rn_close", stack |-> <<Cont("rn_ret")>> \o Tail(s)]
    ELSE IF Head(s).k = "h_answer" THEN [pc |-> "h_answer", stack |-> Tail(s)]
    ELSE IF Head(s).k = "new_ret" THEN [pc |-> "new_ret", stack |-> Tail(s)]
    ELSE IF Head(s).k = "h_cleanup"
        THEN [pc |-> "check",
              stack |-> <<Pending("Info", "cleanup", CleanupLen), Cont("cl_call")>> \o Tail(s)]
    ELSE IF Head(s).k = "cl_call" THEN [pc |-> "cl_call", stack |-> Tail(s)]
    ELSE IF Head(s).k = "m_go" THEN [pc |-> "m_go", stack |-> Tail(s)]
    ELSE IF Head(s).k = "m_serve" THEN [pc |-> "m_serve", stack |-> Tail(s)]
    ELSE IF Head(s).k = "m_shutdown" THEN [pc |-> "m_shutdown", stack |-> Tail(s)]
    ELSE IF Head(s).k = "m_defer"
        THEN [pc |-> "check",
              stack |-> <<Pending("Info", "user", UserLen), Cont("m_close")>> \o Tail(s)]
    ELSE IF Head(s).k = "m_close"
        THEN [pc |-> "check",
              stack |-> <<Pending("Info", "closing", UserLen), Cont("m_closefile")>>
                            \o Tail(s)]
    ELSE IF Head(s).k = "m_closefile" THEN [pc |-> "m_closefile", stack |-> Tail(s)]
    ELSE Resume(Tail(s))

\* t goes on at r.pc with the stack r.stack.
GoOn(t, r) ==
    /\ lpc' = [lpc EXCEPT ![t] = r.pc]
    /\ stack' = [stack EXCEPT ![t] = r.stack]
    /\ UNCHANGED proc

\* The calls of l.Error made by a reopenLogFile whose os.OpenFile failed
\* (logger.go:128) that t is inside, one in the other.
Nesting(t) ==
    Cardinality({i \in DOMAIN stack[t] :
                    stack[t][i].k = "write" /\ stack[t][i].msg = "reopen"})

\* Where a line printed on the output out ends up: io.MultiWriter writes to
\* the file first and stops at its error.
Sink(out) ==
    IF out = Stdout THEN [sink |-> "stdout"]
    ELSE IF ~fds[out].open THEN [sink |-> "lost"]
    ELSE IF ~fds[out].linked THEN [sink |-> "unlinked"]
    ELSE [sink |-> "file", path |-> fds[out].path]
Appended(f, n) == File(Append(f.content, Line(n)), now)

NoWrite == [msg |-> "none"]

\* reopenLogFile when os.OpenFile failed, logger.go:126-127:
\* SetOutput(os.Stdout) on a logger whose output was cur
KeepOut(cur) == cur
FallbackOut(cur) == Stdout

\* The server has not begun to serve, main has received no signal, no call
\* of the API client is running.
NoFetch == [pc |-> "idle", attempts |-> 0, err |-> FALSE]
InitApp(m) ==
    /\ answer = [t \in Threads |-> "none"]
    /\ reqs = 0
    /\ mpc = m
    /\ fetch = [t \in Threads |-> NoFetch]
InitNoApp == InitApp("serving")

\* No Logger has been made.
InitNoLogger ==
    /\ lfile = Stdout /\ infoOut = Stdout /\ errOut = Stdout
    /\ lpc = [t \in Threads |-> "idle"]
    /\ stack = [t \in Threads |-> <<>>]
    /\ newfd = [t \in Threads |-> Stdout]
    /\ proc = "running"
    /\ logcalls = 0 /\ ticks = 0 /\ cbs = 0
    /\ wrote = NoWrite
    /\ seen = [t \in Threads |-> "none"]
    /\ forced = [t \in Threads |-> "none"]

\* The log files New may find: none, one that the three lines of New and
\* the first line of main (main.go:44) fill up to maxSize, or one that these
\* and the line of the server's goroutine (main.go:433) fill up to maxSize.
StartContents ==
    {<<>>, <<Line(MaxLogFileSize - 2 * UserLen - StatsLen - SettingsLen)>>,
     <<Line(MaxLogFileSize - 3 * UserLen - StatsLen - SettingsLen)>>}

\* New(logPath) on g1, at logger.go:54: the file is opened (and created if
\* it is not there), both loggers print on it and on os.Stdout, the
\* scheduler is started (:22-51).  New has still to make its calls of
\* Info("Logger initialized ...") and logRotationInfo (:54-55) and to return.
InitLoggerIn(dir) ==
    /\ \E c \in StartContents : active = File(c, 0)
    /\ rotated = dir
    /\ fds = <<Fd(ActivePath)>>
    /\ InitCalls
    /\ lfile = 1 /\ infoOut = 1 /\ errOut = 1
    /\ lpc = [t \in Threads |-> IF t = Writer THEN "check" ELSE "idle"]
    /\ stack = [t \in Threads |->
                  IF t = Writer
                  THEN <<Pending("Info", "user", UserLen), Cont("rn_stats"), Cont("new_ret")>>
                  ELSE <<>>]
    /\ newfd = [t \in Threads |-> Stdout]
    /\ proc = "running"
    /\ logcalls = 0 /\ ticks = 0 /\ cbs = 0
    /\ wrote = NoWrite
    /\ seen = [t \in Threads |-> "none"]
    /\ forced = [t \in Threads |-> "none"]

InitLogger == InitLoggerIn([x \in {} |-> NoFile])

\* l.Info(msg), l.Error(msg), ..., logger.go:61-92, is called
LogCall(t, kind) ==
    /\ proc = "running" /\ t = Writer /\ lpc[t] = "idle"
    /\ logcalls < MaxLogCalls
    /\ UNCHANGED notLogger
    /\ UNCHANGED histVars
    /\ logcalls' = logcalls + 1
    /\ lpc' = [lpc EXCEPT ![t] = IF Checks(kind) THEN "check" ELSE "write"]
    /\ stack' = [stack EXCEPT ![t] = <<Pending(kind, "user", UserLen)>>]
    /\ UNCHANGED <<now, rotatorVars, lfile, infoOut, errOut, newfd, proc, ticks, cbs, wrote>>

\* checkAndRotate, logger.go:95-99: ShouldRotate, and the call of
\* rotateNow when it says so without error
LogCheck(t, fault) ==
    /\ proc = "running" /\ lpc[t] = "check"
    /\ UNCHANGED notLogger
    /\ seen' = [seen EXCEPT ![t] = Stat(active, fault).kind]
    /\ UNCHANGED forced
    /\ IF ~ShouldRotate(Stat(active, fault)).err /\ ShouldRotate(Stat(active, fault)).rotate
       THEN /\ lpc' = [lpc EXCEPT ![t] = "rn_close"]
            /\ stack' = [stack EXCEPT ![t] =
                            <<Cont("rn_ret")>> \o [@ EXCEPT ![1].checked = TRUE]]
       ELSE /\ lpc' = [lpc EXCEPT ![t] = "write"]
            /\ stack' = [stack EXCEPT ![t][1].checked = TRUE]
    /\ UNCHANGED <<now, rotatorVars, lfile, infoOut, errOut, newfd, proc, logcalls, ticks, cbs, wrote>>

\* rotateNow, logger.go:102-109: l.file.Close(), then l.rotator.RotateLog()
LogRotateNow(t) ==
    /\ proc = "running" /\ lpc[t] = "rn_close" /\ rpc[t] = "idle"
    /\ UNCHANGED notLogger
    /\ UNCHANGED histVars
    /\ fds' = [fds EXCEPT ![lfile] = Closed]
    /\ rpc' = [rpc EXCEPT ![t] = "r_mkdir"]
    /\ op' = [op EXCEPT ![t] = "RotateLog"]
    /\ lpc' = [lpc EXCEPT ![t] = "rn_rotate"]
    /\ UNCHANGED <<now, active, rotated, todo, res, renames, writes, cfd, moved, cl>>
    /\ UNCHANGED <<lfile, infoOut, errOut, stack, newfd, proc, logcalls, ticks, cbs, wrote>>

\* RotateLog has returned to rotateNow, logger.go:109-116: reopenLogFile is
\* called, after which rotateNow returns (err != nil) or goes on
LogRotated(t) ==
    /\ proc = "running" /\ lpc[t] = "rn_rotate" /\ rpc[t] = "ret"
    /\ UNCHANGED notLogger
    /\ forced' = [forced EXCEPT ![t] =
                     IF Len(stack[t]) >= 2 /\ stack[t][2] = Cont("h_answer")
                     THEN (IF res[t].err THEN "failed" ELSE "rotated") ELSE @]
    /\ UNCHANGED seen
    /\ rpc' = [rpc EXCEPT ![t] = "idle"]
    /\ res' = [res EXCEPT ![t] = NoRes]
    /\ moved' = [moved EXCEPT ![t] = NoMove]
    /\ cl' = [cl EXCEPT ![t] = NoList]
    /\ GoOn(t, [pc |-> "reopen",
                stack |-> IF res[t].err THEN stack[t]
                          ELSE <<Cont("rn_info")>> \o stack[t]])
    /\ UNCHANGED <<now, active, rotated, todo, op, renames, writes, fds, cfd>>
    /\ UNCHANGED <<lfile, infoOut, errOut, newfd, logcalls, ticks, cbs, wrote>>

\* reopenLogFile, logger.go:123-124: os.OpenFile with O_CREATE|O_APPEND,
\* which succeeds or fails.  The failures in a row inside one
\* call are bounded by MaxNesting.
LogReopen(t, ok) ==
    /\ proc = "running" /\ lpc[t] = "reopen"
    /\ ok \/ Nesting(t) < MaxNesting
    /\ UNCHANGED notLogger
    /\ UNCHANGED histVars
    /\ IF ok
       THEN /\ fds' = Append(fds, Fd(ActivePath))
            /\ active' = IF active.exists THEN active ELSE File(<<>>, now)
            /\ newfd' = [newfd EXCEPT ![t] = Len(fds) + 1]
            /\ lpc' = [lpc EXCEPT ![t] = "ro_file"]
       ELSE /\ lpc' = [lpc EXCEPT ![t] = "ro_fb"]
            /\ UNCHANGED <<fds, active, newfd>>
    /\ UNCHANGED <<now, rotated, rpc, todo, op, res, renames, writes, cfd, moved, cl>>
    /\ UNCHANGED <<lfile, infoOut, errOut, stack, proc, logcalls, ticks, cbs, wrote>>

\* reopenLogFile, logger.go:132: l.file = file
LogSetFile(t) ==
    /\ proc = "running" /\ lpc[t] = "ro_file"
    /\ UNCHANGED notLogger
    /\ UNCHANGED histVars
    /\ lfile' = newfd[t]
    /\ lpc' = [lpc EXCEPT ![t] = "ro_set"]
    /\ UNCHANGED <<now, rotatorVars, infoOut, errOut, stack, newfd, proc>>
    /\ UNCHANGED <<logcalls, ticks, cbs, wrote>>

\* reopenLogFile, l.infoLogger.SetOutput: of io.MultiWriter(file,
\* os.Stdout) at logger.go:136, of os.Stdout at :126
LogSetInfoOutput(t) ==
    /\ proc = "running" /\ lpc[t] \in {"ro_set", "ro_fb"}
    /\ UNCHANGED notLogger
    /\ UNCHANGED histVars
    /\ infoOut' = IF lpc[t] = "ro_set" THEN newfd[t] ELSE FallbackOut(infoOut)
    /\ lpc' = [lpc EXCEPT ![t] = IF lpc[t] = "ro_set" THEN "ro_set2" ELSE "ro_fb2"]
    /\ UNCHANGED <<now, rotatorVars, lfile, errOut, stack, newfd, proc>>
    /\ UNCHANGED <<logcalls, ticks, cbs, wrote>>

\* reopenLogFile, l.errorLogger.SetOutput: of the MultiWriter at
\* logger.go:137, after which reopenLogFile returns; of os.Stdout at :127,
\* after which l.Error is called (:128)
LogSetErrOutput(t) ==
    /\ proc = "running" /\ lpc[t] \in {"ro_set2", "ro_fb2"}
    /\ UNCHANGED notLogger
    /\ UNCHANGED histVars
    /\ errOut' = IF lpc[t] = "ro_set2" THEN newfd[t] ELSE FallbackOut(errOut)
    /\ newfd' = [newfd EXCEPT ![t] = Stdout]
    /\ GoOn(t, IF lpc[t] = "ro_set2" THEN Resume(stack[t])
               ELSE [pc |-> "check",
                     stack |-> <<Pending("Error", "reopen", ReopenFailedLen),
                                 Cont("ro_ret")>> \o stack[t]])
    /\ UNCHANGED <<now, rotatorVars, lfile, infoOut, logcalls, ticks, cbs, wrote>>

\* l.infoLogger.Println(msg) and the like, logger.go:63, :69, :75, :81,
\* :86, :91: the line goes where the logger's output points; Fatal and
\* Fatalf have os.Exit(1) still to call
LogWrite(t) ==
    /\ proc = "running" /\ lpc[t] = "write"
    /\ UNCHANGED notLogger
    /\ UNCHANGED histVars
    /\ LET top == Head(stack[t])
           out == IF top.stream = "info" THEN infoOut ELSE errOut
       IN  /\ wrote' = [msg |-> top.msg, stream |-> top.stream, checked |-> top.checked,
                        to |-> Sink(out)]
           /\ active' = IF Sink(out) = [sink |-> "file", path |-> ActivePath]
                        THEN Appended(active, top.bytes) ELSE active
           /\ rotated' = IF Sink(out).sink = "file" /\ Sink(out) # [sink |-> "file", path |-> ActivePath]
                         THEN [rotated EXCEPT ![Sink(out).path] = Appended(@, top.bytes)]
                         ELSE rotated
           /\ GoOn(t, IF top.exits THEN [pc |-> "exit", stack |-> stack[t]]
                      ELSE Resume(Tail(stack[t])))
    /\ UNCHANGED <<now, rpc, todo, op, res, renames, writes, fds, cfd, moved, cl>>
    /\ UNCHANGED <<lfile, infoOut, errOut, newfd, logcalls, ticks, cbs>>

\* os.Exit(1) of log.Logger.Fatal and Fatalf and of log.Fatalf, after the
\* line is printed
LogExit(t) ==
    /\ proc = "running" /\ lpc[t] = "exit"
    /\ proc' = "exited"
    /\ UNCHANGED <<now, cacheVars, limiterVars, rotatorVars, appVars>>
    /\ UNCHANGED <<lfile, infoOut, errOut, lpc, stack, newfd, logcalls, ticks, cbs, wrote, histVars>>

\* return logger, nil, logger.go:57
NewReturn(t) ==
    /\ proc = "running" /\ lpc[t] = "new_ret"
    /\ mpc' = "started"
    /\ lpc' = [lpc EXCEPT ![t] = "idle"]
    /\ UNCHANGED <<now, cacheVars, limiterVars, rotatorVars, answer, reqs, fetch>>
    /\ UNCHANGED <<lfile, infoOut, errOut, stack, newfd, proc, logcalls, ticks, cbs, wrote, histVars>>

\* StartRotationScheduler, rotation_system.go:189-193: a tick; ShouldRotate,
\* and RotateLog when it says so without error
SchedTick(t, fault) ==
    /\ proc = "running" /\ t = Scheduler /\ lpc[t] = "idle" /\ rpc[t] = "idle"
    /\ ticks < MaxTicks /\ now >= SchedulerInterval
    /\ UNCHANGED notLogger
    /\ seen' = [seen EXCEPT ![t] = Stat(active, fault).kind]
    /\ UNCHANGED forced
    /\ ticks' = ticks + 1
    /\ IF ~ShouldRotate(Stat(active, fault)).err /\ ShouldRotate(Stat(active, fault)).rotate
       THEN /\ rpc' = [rpc EXCEPT ![t] = "r_mkdir"]
            /\ op' = [op EXCEPT ![t] = "RotateLog"]
            /\ lpc' = [lpc EXCEPT ![t] = "s_rotate"]
       ELSE UNCHANGED <<rpc, op, lpc>>
    /\ UNCHANGED <<now, active, rotated, todo, res, renames, writes, fds, cfd, moved, cl>>
    /\ UNCHANGED <<lfile, infoOut, errOut, stack, newfd, proc, logcalls, cbs, wrote>>

\* rotation_system.go:193-200: onRotate is called when RotateLog returned nil
CallbackAlways(err) == TRUE
CallbackAfter(err) == ~err

\* RotateLog has returned to the scheduler; the callback of logger.go:49-51
\* is logger.reopenLogFile()
SchedRotated(t) ==
    /\ proc = "running" /\ lpc[t] = "s_rotate" /\ rpc[t] = "ret"
    /\ UNCHANGED notLogger
    /\ UNCHANGED histVars
    /\ rpc' = [rpc EXCEPT ![t] = "idle"]
    /\ res' = [res EXCEPT ![t] = NoRes]
    /\ moved' = [moved EXCEPT ![t] = NoMove]
    /\ cl' = [cl EXCEPT ![t] = NoList]
    /\ IF CallbackAfter(res[t].err)
       THEN /\ lpc' = [lpc EXCEPT ![t] = "reopen"]
            /\ stack' = [stack EXCEPT ![t] = <<Cont("cb_ret")>>]
            /\ cbs' = cbs + 1
       ELSE /\ lpc' = [lpc EXCEPT ![t] = "idle"]
            /\ UNCHANGED <<stack, cbs>>
    /\ UNCHANGED <<now, active, rotated, todo, op, renames, writes, fds, cfd>>
    /\ UNCHANGED <<lfile, infoOut, errOut, newfd, proc, logcalls, ticks, wrote>>

\* A step of the RotateLog, or of the cleanupOldLogs of CleanupOldLogs, that
\* t is inside.  What the cleanupOldLogs of a RotateLog cannot list, stat or
\* remove changes nothing for the Logger (RotateLog returns nil all the
\* same), so that cleanup meets no failure here; the glob of the one that
\* CleanupOldLogs calls may fail, which is the error it returns.
RotateLogStep(t) ==
    /\ proc = "running"
    /\ \/ \E ok \in BOOLEAN : RotateMkdir(t, ok)
       \/ \E fault \in BOOLEAN : RotateStat(t, fault)
       \/ \E ok \in BOOLEAN : RotateCreateAbsent(t, ok)
       \/ \E ok \in BOOLEAN : RotateWriteAbsent(t, ok)
       \/ \E ok \in BOOLEAN : RotateRename(t, ok)
       \/ \E ok \in BOOLEAN : RotateCreate(t, ok)
       \/ \E ok \in BOOLEAN : RotateWrite(t, ok)
       \/ CleanupList(t, FALSE, {})
       \/ op[t] = "cleanupOldLogs" /\ CleanupList(t, TRUE, {})
       \/ CleanupRemove(t, TRUE)
       \/ CleanupReturn(t)

\* Time passes while the process runs: maxAge goes by
TickLogger(d) ==
    /\ proc = "running"
    /\ d = MaxLogAge
    /\ TickRotator(d)

NextLogger ==
    \/ \E t \in Threads, kind \in LogKinds : LogCall(t, kind)
    \/ \E t \in Threads, fault \in BOOLEAN : LogCheck(t, fault)
    \/ \E t \in Threads : LogRotateNow(t)
    \/ \E t \in Threads : LogRotated(t)
    \/ \E t \in Threads, ok \in BOOLEAN : LogReopen(t, ok)
    \/ \E t \in Threads : LogSetFile(t)
    \/ \E t \in Threads : LogSetInfoOutput(t)
    \/ \E t \in Threads : LogSetErrOutput(t)
    \/ \E t \in Threads : LogWrite(t)
    \/ \E t \in Threads : LogExit(t)
    \/ \E t \in Threads : NewReturn(t)
    \/ \E t \in Threads, fault \in BOOLEAN : SchedTick(t, fault)
    \/ \E t \in Threads : SchedRotated(t)
    \/ \E t \in Threads : RotateLogStep(t)
    \/ \E d \in Jumps : TickLogger(d)

(***************************************************************************)
(* The server, cmd/main.go: every HTTP request is served by a goroutine of *)
(* its own, and the handlers log through the one appLogger                 *)
(***************************************************************************)
Requests == {"log", "rotate", "cleanup"}

\* main goes on after logger.New, main.go:44: appLogger.Info("App
\* starting...")
MainStart(t) ==
    /\ proc = "running" /\ mpc = "started" /\ t = Writer /\ lpc[t] = "idle"
    /\ mpc' = "listening"
    /\ lpc' = [lpc EXCEPT ![t] = "check"]
    /\ stack' = [stack EXCEPT ![t] = <<Pending("Info", "user", UserLen), Cont("m_go")>>]
    /\ UNCHANGED <<now, cacheVars, limiterVars, rotatorVars, answer, reqs, fetch>>
    /\ UNCHANGED <<lfile, infoOut, errOut, newfd, proc, logcalls, ticks, cbs, wrote, histVars>>

\* The routes are set up and main starts the goroutine of the server,
\* main.go:432-433, whose first statement is appLogger.Infof("Server running
\* at ..."); main itself goes on to wait for a signal, main.go:439-442
MainGo(t) ==
    /\ proc = "running" /\ lpc[t] = "m_go" /\ lpc[Server] = "idle"
    /\ mpc' = "waiting"
    /\ lpc' = [lpc EXCEPT ![t] = "idle", ![Server] = "check"]
    /\ stack' = [stack EXCEPT ![t] = <<>>,
                               ![Server] = <<Pending("Infof", "user", UserLen), Cont("m_serve")>>]
    /\ UNCHANGED <<now, cacheVars, limiterVars, rotatorVars, answer, reqs, fetch>>
    /\ UNCHANGED <<lfile, infoOut, errOut, newfd, proc, logcalls, ticks, cbs, wrote, histVars>>

\* server.ListenAndServe() in the server's goroutine, main.go:434.  It
\* listens, and requests are served from then on (after a Shutdown it
\* returns http.ErrServerClosed and the goroutine ends); or, while Shutdown
\* has not been called, it returns another error (the port is in use) and
\* the goroutine goes on to the log.Fatalf of :435.
MainServe(t, ok) ==
    /\ proc = "running" /\ lpc[t] = "m_serve"
    /\ ok \/ mpc \in {"waiting", "stopping"}
    /\ mpc' = IF ok /\ mpc = "waiting" THEN "serving" ELSE mpc
    /\ lpc' = [lpc EXCEPT ![t] = IF ok THEN "idle" ELSE "m_fatal"]
    /\ UNCHANGED <<now, cacheVars, limiterVars, rotatorVars, answer, reqs, fetch>>
    /\ UNCHANGED <<lfile, infoOut, errOut, stack, newfd, proc, logcalls, ticks, cbs, wrote, histVars>>

\* log.Fatalf("Could not listen on ..."), main.go:435: the standard logger
\* prints on stderr, which is no output of the Logger, and has os.Exit(1)
\* still to call
MainFatal(t) ==
    /\ proc = "running" /\ lpc[t] = "m_fatal"
    /\ lpc' = [lpc EXCEPT ![t] = "exit"]
    /\ UNCHANGED <<now, cacheVars, limiterVars, rotatorVars, appVars>>
    /\ UNCHANGED <<lfile, infoOut, errOut, stack, newfd, proc, logcalls, ticks, cbs, wrote, histVars>>

\* A request arrives and its handler makes its first call of the Logger:
\* appLogger.Infof(...) of a handler that only logs (main.go:106),
\* appLogger.Info("Manual log rotation requested via API") of the
\* /logs/rotate handler (main.go:115), which goes on with ForceRotate, or
\* appLogger.Info("Manual log cleanup requested via API") of the
\* /logs/cleanup handler (main.go:134), which goes on with CleanupOldLogs
Request(t, what) ==
    /\ proc = "running" /\ mpc = "serving" /\ lpc[t] = "idle" /\ reqs < MaxRequests
    /\ reqs' = reqs + 1
    /\ answer' = [answer EXCEPT ![t] = "none"]
    /\ forced' = [forced EXCEPT ![t] = "none"]
    /\ lpc' = [lpc EXCEPT ![t] = "check"]
    /\ stack' = [stack EXCEPT ![t] =
                    <<Pending("Info", "user", UserLen)>> \o
                    (IF what = "rotate" THEN <<Cont("h_force"), Cont("h_answer")>>
                     ELSE IF what = "cleanup" THEN <<Cont("h_cleanup")>>
                     ELSE <<>>)]
    /\ UNCHANGED <<now, cacheVars, limiterVars, rotatorVars, mpc, fetch>>
    /\ UNCHANGED <<lfile, infoOut, errOut, newfd, proc, logcalls, ticks, cbs, wrote, seen>>

\* ForceRotate's return value, logger.go:158: return nil, however the
\* RotateLog of its rotateNow has ended
ForceRotateErr(outcome) == FALSE

\* err := appLogger.ForceRotate() has returned, main.go:116-125: the handler
\* answers 500 and logs with Errorf, or answers success and logs with Info
HandlerAnswer(t) ==
    /\ proc = "running" /\ lpc[t] = "h_answer"
    /\ answer' = [answer EXCEPT ![t] =
                    IF ForceRotateErr(forced[t]) THEN "error" ELSE "success"]
    /\ GoOn(t, [pc |-> "check",
                stack |-> <<Pending(IF ForceRotateErr(forced[t]) THEN "Errorf" ELSE "Info",
                                    "user", UserLen)>> \o stack[t]])
    /\ UNCHANGED <<now, cacheVars, limiterVars, rotatorVars, reqs, mpc, fetch>>
    /\ UNCHANGED <<lfile, infoOut, errOut, newfd, logcalls, ticks, cbs, wrote, histVars>>

\* Logger.CleanupOldLogs after its l.Info, logger.go:164:
\* return l.rotator.cleanupOldLogs()
LogCleanup(t) ==
    /\ proc = "running" /\ lpc[t] = "cl_call" /\ rpc[t] = "idle"
    /\ UNCHANGED notLogger
    /\ UNCHANGED histVars
    /\ rpc' = [rpc EXCEPT ![t] = "c_list"]
    /\ op' = [op EXCEPT ![t] = "cleanupOldLogs"]
    /\ lpc' = [lpc EXCEPT ![t] = "cl_wait"]
    /\ UNCHANGED <<now, active, rotated, todo, res, renames, writes, fds, cfd, moved, cl>>
    /\ UNCHANGED <<lfile, infoOut, errOut, stack, newfd, proc, logcalls, ticks, cbs, wrote>>

\* err := appLogger.CleanupOldLogs() has returned, main.go:135-144: with an
\* error the handler logs with Errorf and answers 500, without it answers
\* success and logs with Info
LogCleaned(t) ==
    /\ proc = "running" /\ lpc[t] = "cl_wait" /\ rpc[t] = "ret"
    /\ rpc' = [rpc EXCEPT ![t] = "idle"]
    /\ res' = [res EXCEPT ![t] = NoRes]
    /\ moved' = [moved EXCEPT ![t] = NoMove]
    /\ cl' = [cl EXCEPT ![t] = NoList]
    /\ answer' = [answer EXCEPT ![t] = IF res[t].err THEN "error" ELSE "success"]
    /\ GoOn(t, [pc |-> "check",
                stack |-> <<Pending(IF res[t].err THEN "Errorf" ELSE "Info",
                                    "user", UserLen)>> \o stack[t]])
    /\ UNCHANGED <<now, cacheVars, limiterVars, reqs, mpc, fetch>>
    /\ UNCHANGED <<active, rotated, todo, op, renames, writes, fds, cfd>>
    /\ UNCHANGED <<lfile, infoOut, errOut, newfd, logcalls, ticks, cbs, wrote, histVars>>

\* The rotated siblings New may find: none, or the one that a rotation in
\* the second it is called in has left.
StartSiblings ==
    {[x \in {} |-> NoFile],
     [x \in {RotatedName(0)} |-> File(<<Line(UserLen)>>, 0)]}

\* The program from New on, and the steps of two goroutines that serve
\* requests within one second: g1 serves any kind of request, g2 one that
\* only logs.  The file system fails inside RotateLog and in the glob of
\* CleanupOldLogs only: the stat of checkAndRotate and the open of
\* reopenLogFile succeed.
NextRequests ==
    \/ \E t \in Threads : NewReturn(t)
    \/ \E t \in Threads : MainStart(t)
    \/ \E t \in Threads : MainGo(t)
    \/ \E t \in Threads, ok \in BOOLEAN : MainServe(t, ok)
    \/ \E t \in Threads : MainFatal(t)
    \/ \E t \in Threads : LogExit(t)
    \/ \E what \in Requests : Request(Writer, what)
    \/ Request(Scheduler, "log")
    \/ \E t \in Threads : LogCleanup(t)
    \/ \E t \in Threads : LogCleaned(t)
    \/ \E t \in Threads : LogCheck(t, FALSE)
    \/ \E t \in Threads : LogRotateNow(t)
    \/ \E t \in Threads : LogRotated(t)
    \/ \E t \in Threads : LogReopen(t, TRUE)
    \/ \E t \in Threads : LogSetFile(t)
    \/ \E t \in Threads : LogSetInfoOutput(t)
    \/ \E t \in Threads : LogSetErrOutput(t)
    \/ \E t \in Threads : LogWrite(t)
    \/ \E t \in Threads : HandlerAnswer(t)
    \/ \E t \in Threads : RotateLogStep(t)

(***************************************************************************)
(* The end of main, cmd/main.go:439-454 and the deferred function of       *)
(* :47-52.  main is the goroutine g1.                                      *)
(***************************************************************************)
\* <-stop has received SIGINT or SIGTERM, main.go:442-444:
\* appLogger.Info("Shutting down server...")
MainSignal(t) ==
    /\ proc = "running" /\ t = Writer /\ mpc \in {"waiting", "serving"} /\ lpc[t] = "idle"
    /\ mpc' = "stopping"
    /\ lpc' = [lpc EXCEPT ![t] = "check"]
    /\ stack' = [stack EXCEPT ![t] =
                    <<Pending("Info", "user", UserLen), Cont("m_shutdown")>>]
    /\ UNCHANGED <<now, cacheVars, limiterVars, rotatorVars, answer, reqs, fetch>>
    /\ UNCHANGED <<lfile, infoOut, errOut, newfd, proc, logcalls, ticks, cbs, wrote, histVars>>

\* server.Shutdown(ctx) has returned, main.go:449-453: with an error,
\* appLogger.Fatalf(...); without, appLogger.Info("Server gracefully
\* stopped"), after which main returns and its deferred function runs
MainShutdown(t, ok) ==
    /\ proc = "running" /\ lpc[t] = "m_shutdown"
    /\ mpc' = IF ok THEN "stopped" ELSE "failed"
    /\ GoOn(t, IF ok
               THEN [pc |-> "check",
                     stack |-> <<Pending("Info", "user", UserLen), Cont("m_defer")>>]
               ELSE [pc |-> "write",
                     stack |-> <<Pending("Fatalf", "user", UserLen)>>])
    /\ UNCHANGED <<now, cacheVars, limiterVars, rotatorVars, answer, reqs, fetch>>
    /\ UNCHANGED <<lfile, infoOut, errOut, newfd, logcalls, ticks, cbs, wrote, histVars>>

\* Close, logger.go:170-171, after its Info: l.file.Close().  The deferred
\* function of main has its test of the error and its return still to do
\* (main.go:49-52).
MainClose(t) ==
    /\ proc = "running" /\ lpc[t] = "m_closefile"
    /\ fds' = IF lfile # Stdout THEN [fds EXCEPT ![lfile] = Closed] ELSE fds
    /\ mpc' = "closed"
    /\ lpc' = [lpc EXCEPT ![t] = "m_return"]
    /\ UNCHANGED <<now, cacheVars, limiterVars, answer, reqs, fetch>>
    /\ UNCHANGED <<active, rotated, rpc, todo, op, res, renames, writes, cfd, moved, cl>>
    /\ UNCHANGED <<lfile, infoOut, errOut, stack, newfd, proc, logcalls, ticks, cbs, wrote, histVars>>

\* The deferred function returns, main returns and the process ends,
\* main.go:52, :454, whatever the other goroutines are doing
MainReturn(t) ==
    /\ proc = "running" /\ lpc[t] = "m_return"
    /\ proc' = "exited"
    /\ lpc' = [lpc EXCEPT ![t] = "idle"]
    /\ UNCHANGED <<now, cacheVars, limiterVars, rotatorVars, appVars>>
    /\ UNCHANGED <<lfile, infoOut, errOut, stack, newfd, logcalls, ticks, cbs, wrote, histVars>>

\* The steps of main and of the server's goroutine, no request being
\* served.  The file system fails inside RotateLog only.
NextMain ==
    \/ \E t \in Threads : NewReturn(t)
    \/ \E t \in Threads : MainStart(t)
    \/ \E t \in Threads : MainGo(t)
    \/ \E t \in Threads, ok \in BOOLEAN : MainServe(t, ok)
    \/ \E t \in Threads : MainFatal(t)
    \/ \E t \in Threads : MainSignal(t)
    \/ \E t \in Threads, ok \in BOOLEAN : MainShutdown(t, ok)
    \/ \E t \in Threads : MainClose(t)
    \/ \E t \in Threads : MainReturn(t)
    \/ \E t \in Threads : LogCheck(t, FALSE)
    \/ \E t \in Threads : LogRotateNow(t)
    \/ \E t \in Threads : LogRotated(t)
    \/ \E t \in Threads : LogReopen(t, TRUE)
    \/ \E t \in Threads : LogSetFile(t)
    \/ \E t \in Threads : LogSetInfoOutput(t)
    \/ \E t \in Threads : LogSetErrOutput(t)
    \/ \E t \in Threads : LogWrite(t)
    \/ \E t \in Threads : LogExit(t)
    \/ \E t \in Threads : RotateLogStep(t)

(***************************************************************************)
(* The API client, internal/api/finnhub.go                                 *)
(***************************************************************************)
Fetches == {"FetchCompanyProfile", "FetchNews"}

\* FetchCompanyProfile(symbol) or FetchNews(category, limit) is called:
\* finnhubLimiter.Wait(), finnhub.go:73, :86
FetchCall(t, f) ==
    /\ fetch[t].pc = "idle" /\ wpc[t] = "idle" /\ calls < MaxCalls
    /\ fetch' = [fetch EXCEPT ![t] = [pc |-> "wait", attempts |-> 0, err |-> FALSE]]
    /\ calls' = calls + 1
    /\ wpc' = [wpc EXCEPT ![t] = "w_lock"]
    /\ slept' = [slept EXCEPT ![t] = 0]
    /\ UNCHANGED <<now, lastRequest, interval, lmu, elapsed, wake, grants>>
    /\ UNCHANGED <<cacheVars, rotatorVars, loggerVars, answer, reqs, mpc>>

\* Wait has returned; the request is sent, finnhub.go:76, :92: Execute()
\* answers or fails, and err != nil is returned to the caller at once
\* (:77-79, :93-95)
FetchExecute(t, ok) ==
    /\ fetch[t].pc = "wait" /\ wpc[t] = "idle"
    /\ fetch' = [fetch EXCEPT ![t] = [pc |-> "done", attempts |-> @.attempts + 1,
                                      err |-> ~ok]]
    /\ UNCHANGED <<now, cacheVars, limiterVars, rotatorVars, loggerVars, answer, reqs, mpc>>

\* The caller has the result
FetchReturn(t) ==
    /\ fetch[t].pc = "done"
    /\ fetch' = [fetch EXCEPT ![t] = NoFetch]
    /\ UNCHANGED <<now, cacheVars, limiterVars, rotatorVars, loggerVars, answer, reqs, mpc>>

NextFetch ==
    \/ \E t \in Threads, f \in Fetches : FetchCall(t, f)
    \/ \E t \in Threads : WaitLock(t)
    \/ \E t \in Threads : WaitMeasure(t)
    \/ \E t \in Threads : WaitWake(t)
    \/ \E t \in Threads : WaitRecord(t)
    \/ \E t \in Threads, ok \in BOOLEAN : FetchExecute(t, ok)
    \/ \E t \in Threads : FetchReturn(t)
    \/ TickLimiter

\* The state after New(), NewLimiter(interval) and NewLogRotator(path),
\* with the limiter in use.
Init ==
    /\ InitCache /\ InitLimiter /\ InitRotator /\ InitNoLogger /\ InitNoApp /\ now = 0

\* The same constructions with the limiter left idle (interval 0, no call).
InitIdle ==
    /\ InitCache /\ InitIdleLimiter /\ InitRotator /\ InitNoLogger /\ InitNoApp /\ now = 0

\* logger.New(logPath) at logger.go:54, cache and limiter idle.
InitLogging ==
    /\ InitCache /\ InitIdleLimiter /\ InitLogger /\ InitApp("starting") /\ now = 0

\* logger.New(logPath) at logger.go:54, in a directory that may hold a
\* sibling of this second.
InitServing ==
    /\ InitCache /\ InitIdleLimiter /\ InitApp("starting") /\ now = 0
    /\ \E dir \in StartSiblings : InitLoggerIn(dir)

\* Two goroutines serving HTTP requests.
SpecRequests ==
    /\ InitServing
    /\ [][NextRequests]_vars

\* main is told to stop.
SpecMain ==
    /\ InitLogging
    /\ [][NextMain]_vars

\* Goroutines calling the API client.
SpecFetch ==
    /\ Init
    /\ [][NextFetch]_vars

\* The Logger used by one goroutine while its scheduler runs.
SpecLogger ==
    /\ InitLogging
    /\ [][NextLogger]_vars

\* A rotator made on a directory that already holds rotated siblings.
InitRetention ==
    /\ InitCache /\ InitIdleLimiter /\ InitNoLogger /\ InitNoApp /\ now = 0
    /\ \E n \in SiblingCounts : \E o \in ExpiredCounts(n), tie \in BOOLEAN, edge \in BOOLEAN :
          InitRotatorOn(Directory(n, o, tie, edge))

\* lr.cleanupOldLogs() on a directory, again and again
NextRetention ==
    \/ \E t \in RotatorThreads : CallCleanup(t)
    \/ \E t \in RotatorThreads : \E globErr \in BOOLEAN, skipped \in StatFaults(active, rotated) :
          CleanupList(t, globErr, skipped)
    \/ \E t \in RotatorThreads, ok \in BOOLEAN : CleanupRemove(t, ok)
    \/ \E t \in RotatorThreads : CleanupReturn(t)
    \/ \E t \in RotatorThreads : Returned(t)

SpecRetention ==
    /\ InitRetention
    /\ [][NextRetention]_vars

SpecRotator ==
    /\ InitIdle
    /\ [][NextRotator]_vars

SpecCache ==
    /\ InitIdle
    /\ [][NextCache]_vars

SpecLimiter ==
    /\ Init
    /\ [][NextLimiter]_vars

\* sync.Mutex hands the lock to a goroutine that keeps waiting for it
\* (starvation mode), running goroutines take their steps, time passes.
SpecLimiterFair ==
    /\ SpecLimiter
    /\ WF_vars(TickLimiter)
    /\ \A t \in Threads :
          /\ SF_vars(WaitLock(t))
          /\ WF_vars(WaitMeasure(t))
          /\ WF_vars(WaitWake(t))
          /\ WF_vars(WaitRecord(t))

(***************************************************************************)
(* Cache: properties                                                       *)
(***************************************************************************)
\* A Get that has decided and still holds its read lock.
Returning(t) == pc[t] = "g_unlock"
\* The last Set of k in lock order, when no Delete of k followed it.
LastSet(k) == last[k].op = "set"
\* Time elapsed between that Set's clock reading and Get's.
Elapsed(t) == at[t] - last[key[t]].e.timestamp

\* C1: after Set(k, v, ttl), whether k was absent or present, a Get(k) that
\* reads the clock no more than ttl after that Set, with no Set or Delete of
\* k in between, returns (v, true).
C1_SetThenGet ==
    \A t \in Threads :
        (Returning(t) /\ LastSet(key[t]) /\ Elapsed(t) <= last[key[t]].e.ttl)
            => ret[t] = [found |-> TRUE, val |-> last[key[t]].e.data]

C1_Witness ==
    \E t \in Threads :
        /\ Returning(t) /\ LastSet(key[t])
        /\ Elapsed(t) = 1 /\ last[key[t]].e.ttl = 1
        /\ ret[t] = [found |-> TRUE, val |-> "v2"]

\* C2: once more than ttl has elapsed since Set(k, v, ttl), Get(k) returns
\* not-found and the entry is gone from the map; a Get(k) begun after such a
\* miss, with no Set(k) since, returns not-found too; and Get never returns
\* a value older than its ttl.
C2_ExpiredIsRemoved ==
    \A t \in Threads :
        Returning(t) =>
            /\ (LastSet(key[t]) /\ Elapsed(t) > last[key[t]].e.ttl)
                   => (~ret[t].found /\ key[t] \notin DOMAIN data)
            /\ after[t] => (~ret[t].found /\ key[t] \notin DOMAIN data)
            /\ ret[t].found => (LastSet(key[t]) /\ Elapsed(t) <= last[key[t]].e.ttl)

C2_Witness ==
    \E t \in Threads :
        /\ Returning(t) /\ after[t] /\ LastSet(key[t])
        /\ last[key[t]].e.ttl = 1 /\ Elapsed(t) > 1
        /\ ~ret[t].found /\ key[t] \notin DOMAIN data

\* C3: the expiry test is strict: a Get that reads the clock exactly ttl
\* after the Set is a hit, one that reads it any later is a miss.
C3_StrictBoundary ==
    \A t \in Threads :
        (Returning(t) /\ LastSet(key[t])) =>
            /\ Elapsed(t) = last[key[t]].e.ttl => ret[t].found
            /\ Elapsed(t) = last[key[t]].e.ttl + 1 => ~ret[t].found

C3_Witness ==
    \E t, u \in Threads :
        /\ Returning(t) /\ Returning(u) /\ key[t] = key[u] /\ LastSet(key[t])
        /\ last[key[t]].e.ttl = 1
        /\ Elapsed(t) = 1 /\ ret[t].found
        /\ Elapsed(u) = 2 /\ ~ret[u].found

\* C4: no goroutine removes or writes a map entry while another goroutine
\* is reading or writing the map.
C4_MutationExclusive ==
    \A t, u \in Threads :
        (t # u /\ MapWritePending(t)) => ~MapAccessPending(u)

\* C5: a step of Set(a), Get(a) or Delete(a) leaves the entry of every other
\* key unchanged, and Delete of an absent key leaves the whole map unchanged.
C5_Frame ==
    [][\A t \in Threads :
          pc'[t] # pc[t] =>
            /\ \A b \in Keys :
                 (b # key[t] /\ b # key'[t]) => MapGet(data', b) = MapGet(data, b)
            /\ (pc[t] = "d_delete" /\ key[t] \notin DOMAIN data) => data' = data]_vars

C5_Witness ==
    /\ last["a"].op = "del" /\ last["a"].was = "absent"
    /\ "b" \in DOMAIN data /\ last["b"].op = "set"

\* C6: Delete(k) removes k whether it is expired or not and present or not:
\* while Delete is the last write of k, k is not in the map and Get(k)
\* returns not-found.
C6_DeleteRemoves ==
    /\ \A k \in Keys : last[k].op = "del" => k \notin DOMAIN data
    /\ \A t \in Threads :
          (Returning(t) /\ last[key[t]].op = "del") => ~ret[t].found

C6_Witness ==
    \E t \in Threads :
        Returning(t) /\ last[key[t]].op = "del" /\ last[key[t]].was = "live" /\ ~ret[t].found

(***************************************************************************)
(* Limiter: properties                                                     *)
(***************************************************************************)
\* C7: successive grants (lastRequest recorded, Wait returns) are at least
\* interval apart, so the j-th grant comes no sooner than (j - i) * interval
\* after the i-th, for any number of concurrent callers.
C7_GrantSpacing ==
    \A i, j \in 1..Len(grants) :
        i < j => grants[j] - grants[i] >= (j - i) * interval

C7_Witness ==
    /\ Len(grants) = 3 /\ interval = 2
    /\ grants[2] - grants[1] = 2
    /\ grants[3] - grants[1] >= 4
    /\ \E t \in Threads : wpc[t] = "idle" /\ slept[t] = 1

\* The instant the running Wait read the clock: it holds the lock and
\* sleeps until wake, which it set to that instant + interval - elapsed.
SleepExact ==
    \A t \in Threads :
        /\ slept[t] <= 1
        /\ wpc[t] = "w_sleep" =>
              /\ slept[t] = 1 /\ lmu = t /\ lastRequest # ZeroTime
              /\ elapsed[t] < interval
              /\ wake[t] = lastRequest + interval
        /\ (wpc[t] = "w_record" /\ slept[t] = 0) =>
              (lastRequest = ZeroTime \/ now - lastRequest >= interval)
        /\ (wpc[t] = "w_record" /\ slept[t] = 1) => now >= lastRequest + interval

\* C8: every Wait call returns; once admitted the caller sleeps at most
\* once, until lastRequest + interval when that lies ahead and not at all
\* otherwise (the first call, a call interval or more after the last grant).
C8_WaitReturns ==
    /\ []SleepExact
    /\ \A t \in Threads : (wpc[t] # "idle") ~> (wpc[t] = "idle")

C8_Witness ==
    /\ Len(grants) = MaxCalls /\ interval = 2
    /\ \E t, u \in Threads :
          /\ t # u /\ wpc[t] = "idle" /\ wpc[u] = "idle"
          /\ slept[t] = 1 /\ slept[u] = 0

(***************************************************************************)
(* LogRotator: properties                                                  *)
(***************************************************************************)
\* C9: ShouldRotate returns (false, nil) when os.Stat reports that the
\* active file does not exist; when os.Stat succeeds it returns no error
\* and true exactly when size >= maxSize or now - ModTime >= maxAge.
C9_ShouldRotate ==
    [][\A t \in Threads :
          (rpc[t] = "idle" /\ rpc'[t] = "ret" /\ res'[t].op = "ShouldRotate") =>
            /\ res'[t].stat = "notexist" =>
                  (~active.exists /\ ~res'[t].out.rotate /\ ~res'[t].out.err)
            /\ ~active.exists => res'[t].stat # "ok"
            /\ res'[t].stat = "ok" =>
                  /\ active.exists /\ ~res'[t].out.err
                  /\ res'[t].out.rotate <=>
                        (\/ Bytes(active.content) >= 10 * 1024 * 1024
                         \/ now - active.mtime >= 5 * 24 * 3600)]_vars

C9_Witness ==
    \E t \in Threads :
        /\ rpc[t] = "ret" /\ res[t].op = "ShouldRotate" /\ res[t].stat = "ok"
        /\ res[t].out.rotate /\ ~res[t].out.err
        /\ active.exists /\ Bytes(active.content) = maxSize - 1
        /\ now - active.mtime = maxAge

\* C10: a RotateLog that finds the active file absent creates the active
\* file with the banner line as its only content and returns: it renames
\* nothing, removes nothing, and the rotated siblings stay as they were.
C10_RotateAbsent ==
    [][\A t \in Threads :
          /\ (rpc[t] = "r_stat" /\ rpc'[t] = "r_create0") =>
                (~active.exists /\ active' = active /\ rotated' = rotated)
          /\ (rpc[t] = "r_create0" /\ rpc'[t] # "r_create0") =>
                /\ rotated' = rotated
                /\ \/ rpc'[t] = "r_write0"
                   \/ rpc'[t] = "ret" /\ res'[t].op = "RotateLog" /\ res'[t].err
          /\ (rpc[t] = "r_write0" /\ rpc'[t] # "r_write0") =>
                /\ rpc'[t] = "ret" /\ res'[t].op = "RotateLog"
                /\ rotated' = rotated
                /\ ~res'[t].err =>
                      (/\ active'.exists
                       /\ active'.content = <<[line |-> "banner", bytes |-> BannerLen]>>
                       /\ active'.mtime = now)]_vars

(***************************************************************************)
(* RotateLog and cleanupOldLogs: properties                                *)
(***************************************************************************)
\* RotateLog has returned nil to t after going through the rename.
RotatedOk(t) ==
    /\ rpc[t] = "ret" /\ res[t].op = "RotateLog" /\ ~res[t].err
    /\ res[t].at \in {"cleanup", "glob"}

\* C11: a RotateLog that finds the active file renames it to
\* <path>.<now to the second>, the sibling taking the file as it was; then
\* makes the active file anew, which holds the banner and nothing else when
\* its creation is done; then, and not before, runs cleanupOldLogs.  When it
\* returns nil the rotated sibling is there and holds the content the active
\* file had.
C11_RotateAsStated ==
    [][\A t \in Threads :
          /\ (rpc[t] = "r_rename" /\ rpc'[t] = "r_create") =>
                /\ active.exists /\ ~active'.exists
                /\ DOMAIN rotated' = DOMAIN rotated \cup {<<now>>}
                /\ rotated'[<<now>>] = active
                /\ moved'[t] = [name |-> <<now>>, file |-> active]
          /\ (rpc[t] = "r_write" /\ rpc'[t] = "c_list") =>
                active' = [exists |-> TRUE, mtime |-> now,
                           content |-> <<[line |-> "banner", bytes |-> BannerLen]>>]
          /\ (op[t] = "RotateLog" /\ rpc[t] # "c_list" /\ rpc'[t] = "c_list") =>
                rpc[t] = "r_write"
          /\ (op[t] = "RotateLog" /\ rpc[t] # "r_write" /\ rpc'[t] = "r_write") =>
                rpc[t] = "r_create"
          /\ (op[t] = "RotateLog" /\ rpc[t] # "r_create" /\ rpc'[t] = "r_create") =>
                rpc[t] = "r_rename"
          /\ (rpc[t] # "ret" /\ RotatedOk(t)') =>
                /\ moved[t].name \in DOMAIN rotated'
                /\ rotated'[moved[t].name].content = moved[t].file.content]_vars

\* RotateLog returns to t in this step.
RotateLogReturns(t) == rpc[t] # "ret" /\ rpc'[t] = "ret" /\ res'[t].op = "RotateLog"

\* C12: RotateLog returns an error, having done nothing after the failing
\* step, when MkdirAll, the rename or the creation of the new active file
\* fails; when cleanupOldLogs fails (its glob, or the removal of any file)
\* RotateLog returns nil.
C12_RotateErrors ==
    [][\A t \in Threads :
          RotateLogReturns(t) =>
            /\ res'[t].at = "mkdir" =>
                  (/\ res'[t].err /\ rpc[t] = "r_mkdir"
                   /\ active' = active /\ rotated' = rotated)
            /\ res'[t].at = "rename" =>
                  (/\ res'[t].err /\ rpc[t] = "r_rename"
                   /\ active' = active /\ rotated' = rotated)
            /\ res'[t].at = "create" =>
                  (/\ res'[t].err /\ rpc[t] \in {"r_create", "r_write"}
                   /\ rotated' = rotated /\ moved[t].name \in DOMAIN rotated
                   /\ active' = active)
            /\ res'[t].at = "absent" =>
                  (/\ rpc[t] \in {"r_create0", "r_write0"}
                   /\ res'[t].err => (active' = active /\ rotated' = rotated))
            /\ res'[t].at = "glob" =>
                  (~res'[t].err /\ rpc[t] = "c_list" /\ rotated' = rotated)
            /\ res'[t].at = "cleanup" => (~res'[t].err /\ rpc[t] = "c_remove")
            /\ res'[t].err => res'[t].at \in {"mkdir", "rename", "create", "absent"}]_vars

\* RotateLog has returned nil although a file its cleanup had to remove
\* (older than maxAge) is still there: its removal failed.
C12_Witness ==
    \E t \in Threads :
        /\ RotatedOk(t) /\ res[t].at = "cleanup" /\ moved[t].name = <<now>>
        /\ \E x \in DOMAIN rotated : rotated[x].mtime < now - maxAge

\* t takes a step of cleanupOldLogs.
CleanupStep(t) ==
    /\ rpc[t] \in {"c_list", "c_remove"}
    /\ (rpc'[t] # rpc[t] \/ todo'[t] # todo[t])

\* C15: no step of cleanupOldLogs removes or changes the active file or
\* selects its path for removal, whatever its age; the active file leaves
\* its path only by the rename of a rotation, which makes it a sibling.
C15_ActiveNeverCleaned ==
    [][/\ \A t \in Threads :
            CleanupStep(t) => (active' = active /\ <<>> \notin Names(todo'[t]))
       /\ (active.exists /\ ~active'.exists) =>
            \E t \in Threads :
                /\ rpc[t] = "r_rename" /\ rpc'[t] = "r_create"
                /\ rotated'[<<now>>] = active]_vars

\* A cleanup has removed a sibling older than maxAge and returned while the
\* active file, just as old, is still there.
C15_Witness ==
    \E t \in Threads :
        /\ rpc[t] = "ret" /\ res[t] = [op |-> "cleanupOldLogs", err |-> FALSE, at |-> "cleanup"]
        /\ active.exists /\ active.mtime < now - maxAge
        /\ renames > 0 /\ rotated = <<>>

\* cleanupOldLogs has gone through its whole list and returned to t.
CleanedUp(t) == rpc[t] = "ret" /\ res[t].at = "cleanup" /\ cl[t].listed
\* No two files of dir have the same modification time.
DistinctTimes(dir) ==
    \A x, y \in DOMAIN dir : x # y => dir[x].mtime # dir[y].mtime
\* The files of dir not older than maxAge at the instant at.
Live(dir, instant) == {x \in DOMAIN dir : dir[x].mtime >= instant - 5 * 24 * 3600}
\* What is left is the 10 newest files of dir, untouched.
NewestKept(dir) ==
    /\ Cardinality(DOMAIN rotated) = 10
    /\ DOMAIN rotated \subseteq DOMAIN dir
    /\ \A k \in DOMAIN rotated :
          /\ rotated[k] = dir[k]
          /\ \A x \in DOMAIN dir \ DOMAIN rotated : dir[k].mtime > dir[x].mtime

\* C13: after a cleanupOldLogs that could stat every sibling and whose
\* removals all succeeded at most maxFiles siblings remain; run on
\* maxFiles + 3 siblings of distinct modification times, none of them older
\* than maxAge, it leaves exactly maxFiles, the newest ones.
C13_Retention ==
    \A t \in Threads :
        (CleanedUp(t) /\ cl[t].failed = {} /\ cl[t].skipped = {}) =>
            /\ Cardinality(DOMAIN rotated) <= 10
            /\ (/\ Cardinality(DOMAIN cl[t].dir) = 10 + 3
                /\ DistinctTimes(cl[t].dir)
                /\ Live(cl[t].dir, cl[t].at) = DOMAIN cl[t].dir)
                  => NewestKept(cl[t].dir)

C13_Witness ==
    \E t \in Threads :
        /\ CleanedUp(t) /\ cl[t].failed = {} /\ cl[t].skipped = {}
        /\ Cardinality(DOMAIN cl[t].dir) = maxFiles + 3
        /\ DistinctTimes(cl[t].dir)
        /\ Live(cl[t].dir, cl[t].at) = DOMAIN cl[t].dir
        /\ Cardinality(DOMAIN rotated) = maxFiles
        /\ <<0 - 1>> \in DOMAIN rotated /\ <<0 - 11>> \notin DOMAIN rotated

\* C13 as stated: the same for any maxFiles + 3 siblings of distinct
\* modification times (here only for the cleanups that could stat them all).
C13_AsStated ==
    \A t \in Threads :
        (CleanedUp(t) /\ cl[t].failed = {} /\ cl[t].skipped = {}) =>
            /\ Cardinality(DOMAIN rotated) <= 10
            /\ (Cardinality(DOMAIN cl[t].dir) = 10 + 3 /\ DistinctTimes(cl[t].dir))
                  => NewestKept(cl[t].dir)

\* C14: cleanupOldLogs selects for removal exactly the ranked siblings
\* older than now - maxAge and those at index >= maxFiles of the ranking by
\* modification time, newest first, of all ranked siblings.  As the
\* expired files are the last of that ranking, what survives a cleanup
\* without failures is the newest min(maxFiles, number of files not
\* expired) files not expired: never fewer than maxFiles when that many
\* are not expired.
C14_DeletionRule ==
    [][\A t \in Threads :
          /\ (rpc[t] = "c_list" /\ rpc'[t] = "c_remove") =>
                LET ranked == DOMAIN rotated \ cl'[t].skipped
                    chosen == Names(todo'[t])
                    kept == ranked \ chosen
                    live == Live(rotated, now) \cap ranked
                    m == IF Cardinality(ranked) < 10 THEN Cardinality(ranked) ELSE 10
                IN  /\ chosen \subseteq ranked
                    /\ Len(todo'[t]) = Cardinality(chosen)
                    /\ kept \subseteq live
                    /\ Cardinality(kept) <= m
                    /\ Cardinality(kept) < m => kept = live
                    /\ \A k \in kept, x \in chosen :
                          rotated[k].mtime >= rotated[x].mtime
          /\ (rpc[t] = "c_remove" /\ CleanedUp(t)'
                /\ cl[t].failed = {} /\ cl[t].skipped = {}) =>
                LET live == Live(cl[t].dir, cl[t].at)
                IN  /\ DOMAIN rotated' \subseteq live
                    /\ Cardinality(DOMAIN rotated') =
                          (IF Cardinality(live) < 10 THEN Cardinality(live) ELSE 10)
                    /\ \A k \in DOMAIN rotated', x \in live \ DOMAIN rotated' :
                          cl[t].dir[k].mtime >= cl[t].dir[x].mtime]_vars

\* A cleanup of maxFiles + 3 siblings, four of them expired, has left the
\* nine that are not.
C14_Witness ==
    \E t \in Threads :
        /\ CleanedUp(t) /\ cl[t].failed = {} /\ cl[t].skipped = {}
        /\ Cardinality(DOMAIN cl[t].dir) = maxFiles + 3
        /\ Cardinality(Live(cl[t].dir, cl[t].at)) = maxFiles - 1
        /\ DOMAIN rotated = Live(cl[t].dir, cl[t].at)

\* C14 as stated has the two tests leave fewer than maxFiles survivors in
\* some directory where more files than survive had not expired: here, in
\* one of the directories the rotator is started on.
C14_FewerSurvivors ==
    \E dir \in Directories : \E keep \in KeepSets(dir) :
        LET survivors == DOMAIN dir \ ToDelete(dir, keep)
        IN  /\ Cardinality(survivors) < maxFiles
            /\ Cardinality(Live(dir, now)) > Cardinality(survivors)

(***************************************************************************)
(* The Logger                                                              *)
(***************************************************************************)
\* C16: every write operation of the Logger, Fatal and Fatalf included,
\* runs the ShouldRotate check (and the rotation when due) before it writes
\* its line: the last line written was written by a call that had checked.
C16_CheckBeforeWrite ==
    wrote # NoWrite => wrote.checked

\* t has just left reopenLogFile's SetOutput calls, logger.go:135-137
ReopenDone(t) == lpc[t] = "ro_set2" /\ lpc'[t] # "ro_set2"

\* The output out is a file that is open and is the one at the active path
OnActive(out) ==
    /\ out # Stdout
    /\ fds[out].open /\ fds[out].linked /\ fds[out].path = ActivePath

\* No goroutine is inside the Logger or the rotator: every rotation has
\* been followed by its reopen.
Quiet == \A t \in Threads : lpc[t] = "idle" /\ rpc[t] = "idle"

\* C17: once every rotation has been followed by its reopen, a stream that
\* prints on a file prints on the open handle of the file at the active
\* path: not on a renamed file, not on a closed handle.
C17_StreamsOnNewHandle ==
    (proc = "running" /\ Quiet) =>
        \A out \in {infoOut, errOut} : out = Stdout \/ OnActive(out)

\* C18: when os.OpenFile fails in reopenLogFile the goroutine sets the
\* info stream and then the error stream to standard output, whatever they
\* printed on (a closed handle after rotateNow), and the next thing it does
\* is the Error call that logs the failure, which prints on the error
\* stream; when a reopen succeeds, it sets both streams to the handle it
\* opened on the active path, also after a failed one.
C18_FailOpen ==
    [][\A t \in Threads :
          /\ (lpc[t] = "reopen" /\ lpc'[t] # "reopen") =>
                lpc'[t] \in {"ro_file", "ro_fb"}
          /\ (lpc[t] = "reopen" /\ lpc'[t] = "ro_fb") =>
                /\ fds' = fds /\ lfile' = lfile /\ stack' = stack
          /\ (lpc[t] = "ro_fb" /\ lpc'[t] # "ro_fb") =>
                /\ lpc'[t] = "ro_fb2" /\ infoOut' = Stdout
          /\ (lpc[t] = "ro_fb2" /\ lpc'[t] # "ro_fb2") =>
                /\ lpc'[t] = "check" /\ errOut' = Stdout
                /\ Head(stack'[t]) = Pending("Error", "reopen", ReopenFailedLen)
                /\ stack'[t][2] = Cont("ro_ret")
                /\ SubSeq(stack'[t], 3, Len(stack'[t])) = stack[t]
                /\ fds' = fds /\ lfile' = lfile
          /\ (lpc[t] = "reopen" /\ lpc'[t] = "ro_file") =>
                /\ newfd'[t] = Len(fds) + 1
                /\ fds'[newfd'[t]] = Fd(ActivePath)
                /\ active'.exists
          /\ (lpc[t] = "ro_file" /\ lpc'[t] # "ro_file") =>
                /\ lpc'[t] = "ro_set" /\ lfile' = newfd[t] /\ newfd[t] # Stdout
          /\ (lpc[t] = "ro_set" /\ lpc'[t] # "ro_set") =>
                /\ lpc'[t] = "ro_set2" /\ infoOut' = newfd[t] /\ newfd[t] # Stdout
          /\ ReopenDone(t) =>
                /\ errOut' = newfd[t]
                /\ newfd[t] # Stdout
          /\ (lpc[t] = "write" /\ wrote' # wrote /\ wrote'.msg = "reopen") =>
                /\ wrote'.stream = "err"
                /\ wrote'.to = Sink(errOut)]_vars

\* A reopen has failed, its failure has been printed on standard output,
\* and a later reopen has put both streams back on the active file.
C18_Witness ==
    /\ wrote # NoWrite /\ wrote.msg = "reopen" /\ wrote.to = [sink |-> "stdout"]
    /\ infoOut = errOut /\ OnActive(infoOut)

\* C19: a call of the Logger returns after a bounded number of nested
\* rotation and reopen attempts: the attempts a goroutine is inside, one in
\* the other, stay fewer than the failures in a row that the file system
\* makes (MaxNesting, which no bound of the code stands behind).
C19_BoundedNesting ==
    \A t \in Threads : Nesting(t) < MaxNesting

\* The file at the active path is due and its stat can succeed
Due == /\ ~ShouldRotate(Stat(active, FALSE)).err
       /\ ShouldRotate(Stat(active, FALSE)).rotate

\* C20: a tick of the scheduler starts RotateLog only when ShouldRotate
\* said true without error, and the onRotate callback is called once, when
\* a RotateLog of the scheduler has returned nil, and at no other step.
C20_Scheduler ==
    [][/\ (ticks' # ticks) =>
            /\ ticks' = ticks + 1
            /\ rpc'[Scheduler] = "r_mkdir" => (Due /\ op'[Scheduler] = "RotateLog")
            /\ ~Due => rpc'[Scheduler] = "idle"
            /\ cbs' = cbs
       /\ cbs' \in {cbs, cbs + 1}
       /\ (cbs' = cbs + 1) <=>
            /\ lpc[Scheduler] = "s_rotate" /\ rpc[Scheduler] = "ret"
            /\ lpc'[Scheduler] # "s_rotate"
            /\ ~res[Scheduler].err
       /\ (cbs' = cbs + 1) => lpc'[Scheduler] = "reopen"]_vars

\* The scheduler has rotated and its callback has reopened the file.
C20_Witness ==
    /\ cbs = 1 /\ ticks = 1 /\ lpc[Scheduler] = "idle"
    /\ DOMAIN rotated # {}

(***************************************************************************)
(* The cache under concurrent Get, Set and Delete                          *)
(***************************************************************************)
\* t's Get has found its entry expired and is about to run delete(c.data, key)
Evicting(t) == pc[t] = "g_delete"

\* C27: the entry a Get is about to evict is never one stored by a Set that
\* completed after the Get read the map: while a Get is between its read
\* and its delete no Set or Delete of any key completes, and the entry its
\* delete removes, if the key is still there, is an expired one.
C27_EvictsOnlyExpired ==
    [][\A t \in Threads :
          /\ (Evicting(t) /\ key[t] \in DOMAIN data) => Expired(data[key[t]])
          /\ (pc[t] \in {"g_check", "g_delete"} /\ pc'[t] \in {"g_check", "g_delete"}) =>
                \A k \in Keys : last'[k] = last[k]
          /\ (Evicting(t) /\ ~Evicting(t)' /\ ~fatal') =>
                \A k \in DOMAIN data' : k \in DOMAIN data /\ data'[k] = data[k]]_vars

\* A Get has evicted the expired entry of a key while another goroutine
\* holds no lock, and the key is gone.
C27_Witness ==
    \E t \in Threads :
        /\ pc[t] = "g_unlock" /\ missed[key[t]] /\ key[t] \notin DOMAIN data
        /\ last[key[t]].op = "set"
        /\ \E u \in Threads : u # t /\ pc[u] = "idle"

(***************************************************************************)
(* The life cycle of the active file                                       *)
(***************************************************************************)
\* DueForRotation: the file is there and has reached maxSize or maxAge
DueForRotation(f) ==
    /\ f.exists
    /\ (Bytes(f.content) >= maxSize \/ now - f.mtime >= maxAge)

\* C25: a RotateLog whose rename and creation succeed leaves an active file
\* that begins with the banner (and is the banner alone when nothing was
\* appended to it meanwhile), which is not due; a Logger write's check and a scheduler
\* tick whose stat of a due file succeeds start the rotation (rotateNow and
\* its RotateLog, the scheduler's RotateLog), and rotate only a due file.
C25_Cycle ==
    [][/\ \A t \in Threads :
            /\ (rpc[t] = "r_write" /\ rpc'[t] = "c_list") =>
                  /\ cfd[t] = Fd(ActivePath) => Head(active'.content) = Banner
                  /\ active.content = <<>> => active' = BannerOnly(now)
                  /\ ~DueForRotation(active)'
            /\ (lpc[t] = "check" /\ lpc'[t] # "check") =>
                  /\ (seen'[t] = "ok" /\ DueForRotation(active)) => lpc'[t] = "rn_close"
                  /\ lpc'[t] = "rn_close" => DueForRotation(active)
                  /\ lpc'[t] \in {"rn_close", "write"}
            /\ (lpc[t] = "rn_close" /\ lpc'[t] # "rn_close") =>
                  /\ lpc'[t] = "rn_rotate" /\ rpc'[t] = "r_mkdir"
                  /\ op'[t] = "RotateLog"
       /\ (ticks' # ticks) =>
            /\ (seen'[Scheduler] = "ok" /\ DueForRotation(active)) =>
                  /\ rpc'[Scheduler] = "r_mkdir" /\ op'[Scheduler] = "RotateLog"
            /\ rpc'[Scheduler] = "r_mkdir" => DueForRotation(active)]_vars

\* A write found the file due at exactly maxAge, rotated it, and has
\* written its line to the fresh file, which is not due.
C25_Witness ==
    /\ wrote # NoWrite /\ wrote.msg = "user" /\ wrote.checked
    /\ wrote.to = [sink |-> "file", path |-> ActivePath]
    /\ DOMAIN rotated # {} /\ renames = 1
    /\ active.exists /\ active.content # <<>> /\ Head(active.content) = Banner
    /\ ~DueForRotation(active)
    /\ lpc[Writer] = "idle"

(***************************************************************************)
(* The API client                                                          *)
(***************************************************************************)
\* C24: a failure is returned to the caller of FetchCompanyProfile or
\* FetchNews only after the request has been attempted again.
C24_RetriedBeforeFailure ==
    \A t \in Threads :
        (fetch[t].pc = "done" /\ fetch[t].err) => fetch[t].attempts >= 2

\* t is inside rotateNow, logger.go:102-119: it has called rotateNow, from
\* checkAndRotate or from ForceRotate, and that call has not returned.  It
\* is at the Close, in RotateLog, in the reopenLogFile that rotateNow calls
\* (the l.Error of a failed open included), or in the l.Info and the
\* logRotationInfo that end it.
InRotateNow(t) ==
    \E i \in DOMAIN stack[t] : stack[t][i] = Cont("rn_ret")

\* C21: the synchronous rotation checks are serialized: two goroutines that
\* serve requests are never inside rotateNow (close, RotateLog, reopen,
\* assignment of the file handle) at the same time.
C21_RotateNowSerialized ==
    \A t, u \in Threads : (t # u /\ InRotateNow(t)) => ~InRotateNow(u)

\* C23: ForceRotate reports the outcome of its rotation: the /logs/rotate
\* handler never answers success when the RotateLog of the ForceRotate it
\* called has returned an error.
C23_ForceRotateReports ==
    \A t \in Threads : answer[t] = "success" => forced[t] # "failed"

\* C26: the rename of RotateLog never targets a name that exists, and it
\* leaves every rotated sibling there is as it is.
C26_SiblingsKept ==
    [][\A t \in Threads :
          (rpc[t] = "r_rename" /\ rpc'[t] = "r_create") =>
              /\ RotatedName(now) \notin DOMAIN rotated
              /\ \A x \in DOMAIN rotated :
                    x \in DOMAIN rotated' /\ rotated'[x] = rotated[x]]_vars

\* main has taken a signal and its server.Shutdown has returned
ShutDown == mpc \in {"stopped", "failed", "closed"}

\* C22: on every way out that a SIGINT or SIGTERM begins, the one on which
\* server.Shutdown returns an error included, the process has exited only
\* after Close: Close has printed its last line, which is the last line the
\* Logger wrote, and has closed the file of the Logger.
C22_CloseBeforeExit ==
    (proc = "exited" /\ ShutDown) =>
        /\ mpc = "closed"
        /\ wrote.msg = "closing"
        /\ ~fds[lfile].open

====
